---- MODULE Spec2Model ----
(***************************************************************************)
(* The streaming tool-calling agent loop of codex_cli: the async generator *)
(* CodexClient.send_message (src/codex_cli/client.py) with the tool        *)
(* executor ToolRegistry.execute_tool (src/codex_cli/tools.py).            *)
(*                                                                         *)
(* Text is modelled by TLA+ strings (content, reasoning, names, ids,       *)
(* results).  The arguments text of a tool call is a sequence of JSON      *)
(* lexemes, so that json.loads is a parser and not the identity: the       *)
(* lexemes are the punctuation "{", "}", ":", ",", string literals         *)
(* (written by their value, e.g. "file_path") and number literals.         *)
(* Python dicts are records; a key that is absent in the dict is absent in *)
(* the record.                                                             *)
(***************************************************************************)
EXTENDS Integers, Sequences, FiniteSets, TLC

(***************************************************************************)
(* Bounds of the model.                                                    *)
(***************************************************************************)
\* delta events the transport may deliver in one run of the "free" profile
MaxChunks == 3
\* user messages submitted in one session of the "scripted" profile
MaxMessages == 2
MaxInputs == 2
MaxClears == 1
MaxFibN == 30
MaxScenarioLen == 2

(***************************************************************************)
(* Program constants.                                                      *)
(***************************************************************************)
max_iterations == 10

system_prompt == "You are Codex"

\* Python's None
None == "<None>"

\* Python truthiness of an Optional[str]
Truthy(s) == s # None /\ s # ""

(***************************************************************************)
(* Message and Message.to_dict                                             *)
(***************************************************************************)
Message(role, content, tool_calls, name) ==
    [role |-> role, content |-> content, tool_calls |-> tool_calls, name |-> name]

to_dict(msg) ==
    LET base   == [role |-> msg.role, content |-> msg.content]
        withTc == IF msg.tool_calls # <<>>
                  THEN base @@ [tool_calls |-> msg.tool_calls]
                  ELSE base
    IN  IF Truthy(msg.name) THEN withTc @@ [name |-> msg.name] ELSE withTc

SystemMessage == [role |-> "system", content |-> system_prompt]

\* lines 84-85: the request is rebuilt from the history when a run starts
InitialMessages(history) ==
    <<SystemMessage>> \o [i \in 1..Len(history) |-> to_dict(history[i])]

(***************************************************************************)
(* json.loads on lexeme sequences.  The grammar covered is the scalars and *)
(* the flat objects  { key : scalar , ... }  over the lexemes below; every *)
(* other lexeme sequence over them is rejected, as json.loads rejects it.  *)
(***************************************************************************)
StrLits == {"file_path", "a.txt", "missing.txt"}
NumLits == {"1"}
Scalars == StrLits \cup NumLits

IsFlatObject(text) ==
    /\ Len(text) >= 2
    /\ text[1] = "{"
    /\ text[Len(text)] = "}"
    /\ LET inner == SubSeq(text, 2, Len(text) - 1)
       IN  \/ inner = <<>>
           \/ /\ Len(inner) % 4 = 3
              /\ \A i \in 1..Len(inner) :
                    CASE i % 4 = 1 -> inner[i] \in StrLits
                      [] i % 4 = 2 -> inner[i] = ":"
                      [] i % 4 = 3 -> inner[i] \in Scalars
                      [] OTHER     -> inner[i] = ","

\* the dict of a flat object: a later duplicate key wins
ObjectOf(text) ==
    LET inner == SubSeq(text, 2, Len(text) - 1)
        keyAt == {i \in 1..Len(inner) : i % 4 = 1}
        keys  == {inner[i] : i \in keyAt}
        last(k) == CHOOSE i \in keyAt :
                      /\ inner[i] = k
                      /\ \A j \in keyAt : inner[j] = k => j <= i
    IN  [k \in keys |-> inner[last(k) + 2]]

\* ok = FALSE stands for json.JSONDecodeError
json_loads(text) ==
    IF IsFlatObject(text)
    THEN [ok |-> TRUE, kind |-> "dict", value |-> ObjectOf(text)]
    ELSE IF Len(text) = 1 /\ text[1] \in Scalars
    THEN [ok |-> TRUE, kind |-> "scalar", value |-> text[1]]
    ELSE [ok |-> FALSE, kind |-> "error", value |-> "JSONDecodeError"]

(***************************************************************************)
(* ToolRegistry: the registered names with the parameters of their         *)
(* capabilities, execute_tool and the read_file capability.                *)
(***************************************************************************)
ToolNames == {"read_file", "write_file", "list_directory",
              "execute_command", "search_files", "delete_file"}

\* parameters of the capability functions: all of them, and those without default
Params(name) ==
    CASE name = "read_file"       -> [all |-> {"file_path"}, required |-> {"file_path"}]
      [] name = "write_file"      -> [all |-> {"file_path", "content"},
                                      required |-> {"file_path", "content"}]
      [] name = "list_directory"  -> [all |-> {"directory_path"}, required |-> {}]
      [] name = "execute_command" -> [all |-> {"command"}, required |-> {"command"}]
      [] name = "search_files"    -> [all |-> {"pattern"}, required |-> {"pattern"}]
      [] OTHER                    -> [all |-> {"file_path"}, required |-> {"file_path"}]

\* the files of the workspace
WorkspaceFiles == {"a.txt"}

read_file(file_path) ==
    IF file_path \in NumLits
    THEN "Error reading file: unsupported operand type(s)"
    ELSE IF file_path \notin WorkspaceFiles
    THEN "Error: File '" \o file_path \o "' not found"
    ELSE "File: " \o file_path \o "\n\n" \o "<content of " \o file_path \o ">"

\* tool.function(**arguments) raises TypeError before the capability runs
CallRaisesTypeError(name, arguments) ==
    \/ arguments.kind # "dict"
    \/ ~ (DOMAIN arguments.value \subseteq Params(name).all)
    \/ ~ (Params(name).required \subseteq DOMAIN arguments.value)

\* only read_file is driven by the modelled streams; the other capabilities
\* are external collaborators returning some text
Capability(name, arguments) ==
    IF name = "read_file"
    THEN read_file(arguments.value["file_path"])
    ELSE "<output of " \o name \o ">"

\* how a call ends: it returns value, or it raises the exception value;
\* invoked tells whether a capability function was called on the way
Returned(value, invoked) == [raised |-> FALSE, value |-> value, invoked |-> invoked]
Raised(value, invoked) == [raised |-> TRUE, value |-> value, invoked |-> invoked]

\* line 161: await tool.function(**arguments)
CallFunction(name, arguments) ==
    IF CallRaisesTypeError(name, arguments)
    THEN Raised("TypeError", TRUE)
    ELSE Returned(Capability(name, arguments), TRUE)

\* faulty variant: the call of the capability is not wrapped in try/except
execute_tool_unguarded(name, arguments) ==
    IF name \notin ToolNames
    THEN Returned("Error: Tool '" \o name \o "' not found", FALSE)
    ELSE CallFunction(name, arguments)

\* faulty variant: the registry is not consulted first, self.tools[name]
\* raises KeyError inside the try
execute_tool_no_lookup(name, arguments) ==
    IF name \notin ToolNames
    THEN Returned("Error executing tool '" \o name \o "': '" \o name \o "'", FALSE)
    ELSE LET r == CallFunction(name, arguments)
         IN  IF r.raised
             THEN Returned("Error executing tool '" \o name \o "': " \o r.value, TRUE)
             ELSE r

execute_tool(name, arguments) ==
    IF name \notin ToolNames
    THEN Returned("Error: Tool '" \o name \o "' not found", FALSE)
    ELSE LET r == CallFunction(name, arguments)
         IN  IF r.raised
             THEN Returned("Error executing tool '" \o name \o "': " \o r.value, TRUE)
             ELSE r

(***************************************************************************)
(* The transport's stream: chunks carrying a delta with reasoning, content *)
(* and tool-call fragments.  An absent field (None) and an empty one are   *)
(* both falsy in the code and are both modelled as "" (<<>> for arguments).*)
(***************************************************************************)
TcDelta(index, id, name, arguments) ==
    [index |-> index, id |-> id,
     function |-> [name |-> name, arguments |-> arguments]]

Chunk(reasoning, content, tool_calls) ==
    [choices |-> <<[delta |-> [reasoning |-> reasoning, content |-> content,
                               tool_calls |-> tool_calls]]>>]

\* the closing chunk that carries only usage
UsageChunk == [choices |-> <<>>]

FullReadCall ==
    Chunk("", "", <<TcDelta(0, "tc1", "read_file", <<"{", "file_path", ":", "a.txt", "}">>)>>)

\* a call whose name and arguments both arrive split over two fragments
SplitNameHead ==
    Chunk("", "", <<TcDelta(0, "tc1", "read_", <<"{", "file_path", ":">>)>>)

SplitNameTail ==
    Chunk("", "", <<TcDelta(0, "", "file", <<"a.txt", "}">>)>>)

\* a fragment that carries only an id, another one than FullReadCall's
LateId ==
    Chunk("", "", <<TcDelta(0, "tc9", "", <<>>)>>)

\* the delta events of the "free" profile
Deltas ==
    { UsageChunk,
      Chunk("", "", <<>>),
      Chunk("Let me ", "", <<>>),
      Chunk("think", "", <<>>),
      Chunk("", "Hel", <<>>),
      Chunk("", "lo", <<>>),
      Chunk("hm", "Hi", <<>>),
      FullReadCall,
      Chunk("", "", <<TcDelta(0, "tc1", "read_file", <<>>)>>),
      Chunk("", "", <<TcDelta(0, "", "", <<"{", "file_path", ":">>)>>),
      Chunk("", "", <<TcDelta(0, "", "", <<"missing.txt", "}">>)>>),
      Chunk("", "", <<TcDelta(1, "tc2", "nope", <<"{", "}">>)>>),
      Chunk("", "", <<TcDelta(0, "", "", <<"{", "}">>)>>),
      SplitNameHead,
      SplitNameTail,
      LateId }

\* the delta events of the "app" profile
AppDeltas == {FullReadCall, Chunk("", "Hel", <<>>)}

\* the streams of the "scripted" profile
Scripts ==
    { <<FullReadCall, UsageChunk>>,
      <<Chunk("", "Hel", <<>>), Chunk("", "lo", <<>>)>>,
      <<UsageChunk>> }

(***************************************************************************)
(* The accumulator of one model call (lines 110-162).  acc.out holds the   *)
(* events yielded while the chunk is processed.                            *)
(***************************************************************************)
Ev(text, info) == [text |-> text, info |-> info]

\* faulty variant: a model call starts with the thinking phase open
NewAccumulator_phase_open ==
    [content |-> "", reasoning |-> "", tool_calls_dict |-> <<>>,
     reasoning_active |-> TRUE, out |-> <<>>]

\* lines 110-114: the accumulator a model call starts with

NewAccumulator ==
    [content |-> "", reasoning |-> "", tool_calls_dict |-> <<>>,
     reasoning_active |-> FALSE, out |-> <<>>]

\* lines 123-129
ReasoningStep(acc, delta) ==
    IF delta.reasoning # ""
    THEN LET started == IF ~ acc.reasoning_active
                        THEN <<Ev("", [type |-> "thinking_start"])>>
                        ELSE <<>>
         IN  [acc EXCEPT !.reasoning_active = TRUE,
                         !.reasoning = @ \o delta.reasoning,
                         !.out = @ \o started
                                   \o <<Ev(delta.reasoning,
                                           [type |-> "reasoning", partial |-> TRUE])>>]
    ELSE acc

\* faulty variant: a content fragment is put in front of the accumulated content
ContentStep_prepends(acc, delta) ==
    IF delta.content # ""
    THEN LET ended == IF acc.reasoning_active
                      THEN <<Ev("", [type |-> "thinking_end"])>>
                      ELSE <<>>
         IN  [acc EXCEPT !.reasoning_active = FALSE,
                         !.content = delta.content \o @,
                         !.out = @ \o ended
                                   \o <<Ev(delta.content,
                                           [type |-> "content", partial |-> TRUE])>>]
    ELSE acc

\* faulty variant: content does not close the thinking phase
ContentStep_keeps_thinking(acc, delta) ==
    IF delta.content # ""
    THEN [acc EXCEPT !.content = @ \o delta.content,
                     !.out = @ \o <<Ev(delta.content,
                                       [type |-> "content", partial |-> TRUE])>>]
    ELSE acc

\* lines 132-138
ContentStep(acc, delta) ==
    IF delta.content # ""
    THEN LET ended == IF acc.reasoning_active
                      THEN <<Ev("", [type |-> "thinking_end"])>>
                      ELSE <<>>
         IN  [acc EXCEPT !.reasoning_active = FALSE,
                         !.content = @ \o delta.content,
                         !.out = @ \o ended
                                   \o <<Ev(delta.content,
                                           [type |-> "content", partial |-> TRUE])>>]
    ELSE acc

\* faulty variant: a name fragment is appended to the name accumulated so far
ToolCallStep_appends_name(d, tc_delta) ==
    LET idx == tc_delta.index
        d1  == IF idx \notin DOMAIN d
               THEN [i \in DOMAIN d \cup {idx} |->
                        IF i = idx
                        THEN [id |-> tc_delta.id, type |-> "function",
                              function |-> [name |-> "", arguments |-> <<>>]]
                        ELSE d[i]]
               ELSE d
        d2  == IF tc_delta.id # ""
               THEN [d1 EXCEPT ![idx].id = tc_delta.id]
               ELSE d1
        d3  == [d2 EXCEPT ![idx].function.name = @ \o tc_delta.function.name]
    IN  IF tc_delta.function.arguments # <<>>
        THEN [d3 EXCEPT ![idx].function.arguments = @ \o tc_delta.function.arguments]
        ELSE d3

\* faulty variant: the id is set when the entry is created and kept after that
ToolCallStep_keeps_first_id(d, tc_delta) ==
    LET idx == tc_delta.index
        d1  == IF idx \notin DOMAIN d
               THEN [i \in DOMAIN d \cup {idx} |->
                        IF i = idx
                        THEN [id |-> tc_delta.id, type |-> "function",
                              function |-> [name |-> tc_delta.function.name,
                                            arguments |-> <<>>]]
                        ELSE d[i]]
               ELSE d
        d3  == IF tc_delta.function.name # ""
               THEN [d1 EXCEPT ![idx].function.name = tc_delta.function.name]
               ELSE d1
    IN  IF tc_delta.function.arguments # <<>>
        THEN [d3 EXCEPT ![idx].function.arguments = @ \o tc_delta.function.arguments]
        ELSE d3

\* lines 143-162, one tc_delta
ToolCallStep(d, tc_delta) ==
    LET idx == tc_delta.index
        d1  == IF idx \notin DOMAIN d
               THEN [i \in DOMAIN d \cup {idx} |->
                        IF i = idx
                        THEN [id |-> tc_delta.id, type |-> "function",
                              function |-> [name |-> tc_delta.function.name,
                                            arguments |-> <<>>]]
                        ELSE d[i]]
               ELSE d
        d2  == IF tc_delta.id # ""
               THEN [d1 EXCEPT ![idx].id = tc_delta.id]
               ELSE d1
        d3  == IF tc_delta.function.name # ""
               THEN [d2 EXCEPT ![idx].function.name = tc_delta.function.name]
               ELSE d2
    IN  IF tc_delta.function.arguments # <<>>
        THEN [d3 EXCEPT ![idx].function.arguments = @ \o tc_delta.function.arguments]
        ELSE d3

\* lines 141-142: for tc_delta in delta.tool_calls
RECURSIVE ToolCallsStep(_, _)
ToolCallsStep(d, tcs) ==
    IF tcs = <<>> THEN d
    ELSE ToolCallsStep(ToolCallStep(d, Head(tcs)), Tail(tcs))

\* lines 117-162, one chunk
ProcessChunk(acc, chunk) ==
    IF chunk.choices = <<>>
    THEN acc
    ELSE LET delta == chunk.choices[1].delta
             a1 == ReasoningStep(acc, delta)
             a2 == ContentStep(a1, delta)
         IN  [a2 EXCEPT !.tool_calls_dict = ToolCallsStep(@, delta.tool_calls)]

\* faulty variant: the keys are taken largest first
RECURSIVE SortedKeys_descending(_)
SortedKeys_descending(S) ==
    IF S = {} THEN <<>>
    ELSE LET m == CHOOSE x \in S : \A y \in S : x >= y
         IN  <<m>> \o SortedKeys_descending(S \ {m})

\* line 170: [tool_calls_dict[i] for i in sorted(tool_calls_dict.keys())]
RECURSIVE SortedKeys(_)
SortedKeys(S) ==
    IF S = {} THEN <<>>
    ELSE LET m == CHOOSE x \in S : \A y \in S : x <= y
         IN  <<m>> \o SortedKeys(S \ {m})

ToolCallsList(d) ==
    LET keys == SortedKeys(DOMAIN d)
    IN  [i \in 1..Len(keys) |-> d[keys[i]]]

(***************************************************************************)
(* State.                                                                  *)
(***************************************************************************)
VARIABLES
    conversation_history,  \* CodexClient.conversation_history
    messages,              \* the request list of send_message
    iteration,             \* the loop counter of send_message
    pc,                    \* where the generator send_message stands
    accumulated_content,
    accumulated_reasoning,
    tool_calls_dict,
    reasoning_active,
    tool_calls_list,
    tc_pos,                \* position of the for loop in tool_calls_list
    function_args,         \* json.loads of the current call's arguments
    result,                \* result of the current call
    events,                \* what this run of the generator has yielded
    profile,               \* the transport: "scripted", "free" or "app"
    script,                \* scripted profile: chunks the stream still holds
    chunksLeft,            \* free profile: delta events still deliverable
    msgsLeft,              \* user messages still to be submitted
    received,              \* history variable: chunks consumed in this model call
    model_calls,           \* history variable: model calls issued in this run
    call_log,              \* history variable: how each model call of this run ended
    hist_at_call,          \* history variable: conversation_history when the
                           \* current iteration began
    ev_mark,               \* history variable: Len(events) when the current
                           \* model call was issued
    variant,               \* the program run: "cli" (codex_cli) or "simple"
                           \* (codex_simple.py)
    is_processing,         \* CodexApp.is_processing
    inputsLeft,            \* submissions the user may still make in the app
    clearsLeft,            \* clear commands the user may still give
    fib_n,                 \* workspace/fib.py: the argument fib is called with
    fib_out,               \* workspace/fib.py: how the call of fib ended
    scenario,              \* replay profile: what the transport does at each
                           \* model call, the last entry repeated
    first_history,         \* conversation_history of the CodexClient run
    first_calls            \* model calls issued by the CodexClient run

vars == <<conversation_history, messages, iteration, pc, accumulated_content,
          accumulated_reasoning, tool_calls_dict, reasoning_active,
          tool_calls_list, tc_pos, function_args, result, events, profile,
          script, chunksLeft, msgsLeft, received, model_calls, call_log,
          hist_at_call, ev_mark, variant, is_processing, inputsLeft, clearsLeft,
          fib_n, fib_out, scenario, first_history, first_calls>>

accVars == <<accumulated_content, accumulated_reasoning, tool_calls_dict,
             reasoning_active>>
toolVars == <<tool_calls_list, tc_pos, function_args, result>>
envVars == <<profile, script, chunksLeft, msgsLeft>>
appVars == <<variant, is_processing, inputsLeft, clearsLeft>>
fibVars == <<fib_n, fib_out>>
pairVars == <<scenario, first_history, first_calls>>

UserMessages == {"hi"}

\* fib has not been called
NotCalled == [state |-> "not_called", value |-> 0, error |-> ""]

NoArgs == [ok |-> FALSE, kind |-> "error", value |-> "unset"]

InitCommon ==
    /\ conversation_history = <<>>
    /\ messages = <<>>
    /\ iteration = 0
    /\ pc = "idle"
    /\ accumulated_content = ""
    /\ accumulated_reasoning = ""
    /\ tool_calls_dict = <<>>
    /\ reasoning_active = FALSE
    /\ tool_calls_list = <<>>
    /\ tc_pos = 0
    /\ function_args = NoArgs
    /\ result = ""
    /\ events = <<>>
    /\ script = <<>>
    /\ received = <<>>
    /\ model_calls = 0
    /\ call_log = <<>>
    /\ hist_at_call = <<>>
    /\ ev_mark = 0
    /\ is_processing = FALSE

\* a session against a transport that plays the streams of Scripts
Init ==
    /\ InitCommon
    /\ profile = "scripted"
    /\ chunksLeft = 0
    /\ msgsLeft = MaxMessages
    /\ variant = "cli"
    /\ inputsLeft = 0
    /\ clearsLeft = 0
    /\ fib_n = 0
    /\ fib_out = NotCalled
    /\ scenario = <<>>
    /\ first_history = <<>>
    /\ first_calls = 0

\* one message against a transport that streams any deltas, MaxChunks in all
InitStream ==
    /\ InitCommon
    /\ profile = "free"
    /\ chunksLeft = MaxChunks
    /\ msgsLeft = 1
    /\ variant = "cli"
    /\ inputsLeft = 0
    /\ clearsLeft = 0
    /\ fib_n = 0
    /\ fib_out = NotCalled
    /\ scenario = <<>>
    /\ first_history = <<>>
    /\ first_calls = 0

\* one message against the transport that plays the streams of Scripts
InitLive ==
    /\ InitCommon
    /\ profile = "scripted"
    /\ chunksLeft = 0
    /\ msgsLeft = 1
    /\ variant = "cli"
    /\ inputsLeft = 0
    /\ clearsLeft = 0
    /\ fib_n = 0
    /\ fib_out = NotCalled
    /\ scenario = <<>>
    /\ first_history = <<>>
    /\ first_calls = 0

\* the application with MaxInputs submissions and MaxClears clear commands
\* against a transport that streams the deltas of AppDeltas
InitApp ==
    /\ InitCommon
    /\ profile = "app"
    /\ chunksLeft = MaxChunks
    /\ msgsLeft = 0
    /\ variant = "cli"
    /\ inputsLeft = MaxInputs
    /\ clearsLeft = MaxClears
    /\ fib_n = 0
    /\ fib_out = NotCalled
    /\ scenario = <<>>
    /\ first_history = <<>>
    /\ first_calls = 0

\* codex_simple: a session against the transport that plays the streams of
\* Scripts; conversation_history is the module's global list
InitSimple ==
    /\ InitCommon
    /\ profile = "scripted"
    /\ chunksLeft = 0
    /\ msgsLeft = MaxMessages
    /\ variant = "simple"
    /\ inputsLeft = 0
    /\ clearsLeft = 0
    /\ fib_n = 0
    /\ fib_out = NotCalled
    /\ scenario = <<>>
    /\ first_history = <<>>
    /\ first_calls = 0

(***************************************************************************)
(* CodexClient.send_message                                                *)
(***************************************************************************)
\* faulty variant: the loop runs once more than the cap
WhileCondition_inclusive(it) == it <= max_iterations

\* line 92
WhileCondition(it) == it < max_iterations

\* line 246
LimitReached(it) == it >= max_iterations

\* faulty variant: the tool-call branch is taken for every response
HasToolCalls_always(d) == TRUE

\* line 169: if tool_calls_dict
HasToolCalls(d) == DOMAIN d # {}

\* faulty variant: the except clause ends with continue
AfterExcept_continue == "loop"

\* lines 241-244: the except clause ends with break
AfterExcept == "after_loop"

\* lines 242-243
ErrorEvent(e) == Ev("Error communicating with API: " \o e, [type |-> "error"])

\* line 247
WarningEvent ==
    Ev("\n\n[Warning: Maximum tool call iterations reached]", [type |-> "warning"])

\* lines 81-90: the generator starts
StartRun(user_message) ==
    /\ LET h == Append(conversation_history,
                       Message("user", user_message, <<>>, None))
       IN  /\ conversation_history' = h
           /\ messages' = InitialMessages(h)
    /\ iteration' = 0
    /\ pc' = "loop"
    /\ events' = <<>>
    /\ model_calls' = 0
    /\ call_log' = <<>>
    /\ received' = <<>>
    /\ ev_mark' = 0
    /\ UNCHANGED <<accVars, toolVars, profile, script, chunksLeft, hist_at_call>>

\* a caller iterates send_message(user_message) once the run before has ended
SendMessage(user_message) ==
    /\ variant = "cli"
    /\ pc \in {"idle", "done"}
    /\ msgsLeft > 0
    /\ msgsLeft' = msgsLeft - 1
    /\ StartRun(user_message)
    /\ UNCHANGED <<appVars, fibVars, pairVars>>

\* lines 92-93: the head of the while loop
LoopHead ==
    /\ variant = "cli"
    /\ pc = "loop"
    /\ IF WhileCondition(iteration)
       THEN /\ iteration' = iteration + 1
            /\ pc' = "create"
            /\ hist_at_call' = conversation_history
       ELSE /\ pc' = "after_loop"
            /\ UNCHANGED <<iteration, hist_at_call>>
    /\ UNCHANGED <<conversation_history, messages, accVars, toolVars, events,
                   envVars, received, model_calls, call_log, ev_mark>>
    /\ UNCHANGED <<appVars, fibVars, pairVars>>

\* the transport plays whole streams: those of Scripts, or those of scenario
Scripted == profile \in {"scripted", "replay"}

\* replay profile: what the transport does at model call number k
OutcomeAt(k) == scenario[IF k < Len(scenario) THEN k ELSE Len(scenario)]

\* replay profile: whether the transport lets a step of the given kind happen
\* at model call number k
Replays(kind, k) == profile = "replay" => OutcomeAt(k).kind = kind

\* what the transport may stream for the call being issued
Offered ==
    IF profile = "scripted" THEN Scripts
    ELSE IF profile = "replay" THEN {OutcomeAt(model_calls + 1).script}
    ELSE {<<>>}

\* lines 97-114: chat.completions.create returns a stream
CreateReturns ==
    /\ variant = "cli"
    /\ pc = "create"
    /\ profile = "replay" => OutcomeAt(model_calls + 1).kind # "create_failed"
    /\ \E s \in Offered : script' = s
    /\ accumulated_content' = NewAccumulator.content
    /\ accumulated_reasoning' = NewAccumulator.reasoning
    /\ tool_calls_dict' = NewAccumulator.tool_calls_dict
    /\ reasoning_active' = NewAccumulator.reasoning_active
    /\ received' = <<>>
    /\ model_calls' = model_calls + 1
    /\ ev_mark' = Len(events)
    /\ pc' = "stream"
    /\ UNCHANGED <<conversation_history, messages, iteration, toolVars, events,
                   profile, chunksLeft, msgsLeft, call_log, hist_at_call>>
    /\ UNCHANGED <<appVars, fibVars, pairVars>>

\* faulty variant: a failed model call takes the last turn out of the history
CreateRaises_rolls_back ==
    /\ variant = "cli"
    /\ pc = "create"
    /\ Replays("create_failed", model_calls + 1)
    /\ model_calls' = model_calls + 1
    /\ events' = Append(events, ErrorEvent("APIConnectionError"))
    /\ call_log' = Append(call_log, "create_failed")
    /\ conversation_history' =
          SubSeq(conversation_history, 1, Len(conversation_history) - 1)
    /\ pc' = AfterExcept
    /\ UNCHANGED <<messages, iteration, accVars, toolVars,
                   envVars, received, hist_at_call, ev_mark>>
    /\ UNCHANGED <<appVars, fibVars, pairVars>>

\* lines 97-107, 241-244: chat.completions.create raises
CreateRaises ==
    /\ variant = "cli"
    /\ pc = "create"
    /\ Replays("create_failed", model_calls + 1)
    /\ model_calls' = model_calls + 1
    /\ events' = Append(events, ErrorEvent("APIConnectionError"))
    /\ call_log' = Append(call_log, "create_failed")
    /\ pc' = AfterExcept
    /\ UNCHANGED <<conversation_history, messages, iteration, accVars, toolVars,
                   envVars, received, hist_at_call, ev_mark>>
    /\ UNCHANGED <<appVars, fibVars, pairVars>>

\* the chunks the stream may deliver next
NextChunks ==
    IF Scripted
    THEN (IF script # <<>> THEN {Head(script)} ELSE {})
    ELSE (IF chunksLeft > 0
          THEN (IF profile = "free" THEN Deltas ELSE AppDeltas)
          ELSE {})

\* lines 116-162: the stream delivers a chunk
StreamChunk ==
    /\ variant = "cli"
    /\ pc = "stream"
    /\ \E chunk \in NextChunks :
         LET acc == ProcessChunk(
                      [content |-> accumulated_content,
                       reasoning |-> accumulated_reasoning,
                       tool_calls_dict |-> tool_calls_dict,
                       reasoning_active |-> reasoning_active,
                       out |-> <<>>], chunk)
         IN  /\ accumulated_content' = acc.content
             /\ accumulated_reasoning' = acc.reasoning
             /\ tool_calls_dict' = acc.tool_calls_dict
             /\ reasoning_active' = acc.reasoning_active
             /\ events' = events \o acc.out
             /\ received' = Append(received, chunk)
    /\ script' = IF Scripted THEN Tail(script) ELSE script
    /\ chunksLeft' = IF Scripted THEN chunksLeft ELSE chunksLeft - 1
    /\ UNCHANGED <<conversation_history, messages, iteration, pc, toolVars,
                   profile, msgsLeft, model_calls, call_log, hist_at_call, ev_mark>>
    /\ UNCHANGED <<appVars, fibVars, pairVars>>

\* faulty variant: the except clause saves the content accumulated so far
StreamRaises_keeps_partial ==
    /\ variant = "cli"
    /\ pc = "stream"
    /\ profile = "replay" => script = <<>>
    /\ Replays("stream_failed", model_calls)
    /\ events' = Append(events, ErrorEvent("APIError"))
    /\ call_log' = Append(call_log, "stream_failed")
    /\ pc' = AfterExcept
    /\ conversation_history' =
          IF accumulated_content # ""
          THEN Append(conversation_history,
                      Message("assistant", accumulated_content, <<>>, None))
          ELSE conversation_history
    /\ UNCHANGED <<messages, iteration, accVars, toolVars,
                   envVars, received, model_calls, hist_at_call, ev_mark>>
    /\ UNCHANGED <<appVars, fibVars, pairVars>>

\* lines 116, 241-244: the stream raises while it is consumed
StreamRaises ==
    /\ variant = "cli"
    /\ pc = "stream"
    /\ profile = "replay" => script = <<>>
    /\ Replays("stream_failed", model_calls)
    /\ events' = Append(events, ErrorEvent("APIError"))
    /\ call_log' = Append(call_log, "stream_failed")
    /\ pc' = AfterExcept
    /\ UNCHANGED <<conversation_history, messages, iteration, accVars, toolVars,
                   envVars, received, model_calls, hist_at_call, ev_mark>>
    /\ UNCHANGED <<appVars, fibVars, pairVars>>

\* history variable: what the model returned
Classify(d) ==
    IF DOMAIN d = {} THEN "no_tools"
    ELSE IF \A i \in DOMAIN d : json_loads(d[i].function.arguments).ok
    THEN "tools"
    ELSE "bad_tools"

\* faulty variant: the content of a turn that has tool calls is dropped
AssistantTurn_drops_content(content, tcl) == Message("assistant", "", tcl, None)

\* lines 173-179: the assistant turn of a model call with tool calls
AssistantTurn(content, tcl) == Message("assistant", content, tcl, None)

\* faulty variant: the final assistant turn is appended even when it is empty
FinalHistory_always_appends(history, content) ==
    Append(history, Message("assistant", content, <<>>, None))

\* lines 231-235: the history after a model call without tool calls
FinalHistory(history, content) ==
    IF content # ""
    THEN Append(history, Message("assistant", content, <<>>, None))
    ELSE history

\* faulty variant: an open thinking phase is not closed when the stream ends
StreamEndEvents_none(active) == <<>>

\* lines 164-166: what is yielded when the stream has ended
StreamEndEvents(active) ==
    IF active THEN <<Ev("", [type |-> "thinking_end"])>> ELSE <<>>

\* lines 164-179, 229-239: the stream has ended
StreamEnds ==
    /\ variant = "cli"
    /\ pc = "stream"
    /\ Scripted => script = <<>>
    /\ Replays("ends", model_calls)
    /\ LET ended == StreamEndEvents(reasoning_active)
       IN  IF HasToolCalls(tool_calls_dict)
           THEN /\ tool_calls_list' = ToolCallsList(tool_calls_dict)
                /\ conversation_history' =
                      Append(conversation_history,
                             AssistantTurn(accumulated_content,
                                           ToolCallsList(tool_calls_dict)))
                /\ events' = events \o ended
                /\ tc_pos' = 1
                /\ pc' = "tool_loop"
           ELSE /\ conversation_history' =
                      FinalHistory(conversation_history, accumulated_content)
                /\ events' = events \o ended \o <<Ev("", [type |-> "complete"])>>
                /\ pc' = "after_loop"
                /\ UNCHANGED <<tool_calls_list, tc_pos>>
    /\ call_log' = Append(call_log, Classify(tool_calls_dict))
    /\ UNCHANGED <<messages, iteration, accVars, function_args, result, envVars,
                   received, model_calls, hist_at_call, ev_mark>>
    /\ UNCHANGED <<appVars, fibVars, pairVars>>

\* faulty variant: the for loop is left after the first tool call
ForLoopDone_after_first(pos, tcl) == pos > 1

\* line 182: the for loop over the tool calls is exhausted
ForLoopDone(pos, tcl) == pos > Len(tcl)

\* lines 182-192 and 228, 241-244: the head of the for loop over the tool calls
ToolLoop ==
    /\ variant = "cli"
    /\ pc = "tool_loop"
    /\ IF ForLoopDone(tc_pos, tool_calls_list)
       THEN /\ pc' = "loop"
            /\ UNCHANGED <<function_args, events>>
       ELSE LET tool_call == tool_calls_list[tc_pos]
                parsed == json_loads(tool_call.function.arguments)
            IN  IF parsed.ok
                THEN /\ function_args' = parsed
                     /\ events' = Append(events,
                           Ev("", [type |-> "tool_call",
                                   name |-> tool_call.function.name,
                                   arguments |-> parsed.value,
                                   id |-> tool_call.id]))
                     /\ pc' = "execute"
                ELSE /\ events' = Append(events, ErrorEvent(parsed.value))
                     /\ pc' = AfterExcept
                     /\ UNCHANGED function_args
    /\ UNCHANGED <<conversation_history, messages, iteration, accVars,
                   tool_calls_list, tc_pos, result, envVars, received,
                   model_calls, call_log, hist_at_call, ev_mark>>
    /\ UNCHANGED <<appVars, fibVars, pairVars>>

\* lines 195-203: the tool runs and its result is yielded
ExecuteTool ==
    /\ variant = "cli"
    /\ pc = "execute"
    /\ LET tool_call == tool_calls_list[tc_pos]
           r == execute_tool(tool_call.function.name, function_args)
       IN  IF r.raised
           THEN /\ events' = Append(events, ErrorEvent(r.value))
                /\ pc' = AfterExcept
                /\ UNCHANGED result
           ELSE /\ result' = r.value
                /\ events' = Append(events,
                      Ev("", [type |-> "tool_result",
                              name |-> tool_call.function.name,
                              result |-> r.value,
                              id |-> tool_call.id]))
                /\ pc' = "tool_append"
    /\ UNCHANGED <<conversation_history, messages, iteration, accVars,
                   tool_calls_list, tc_pos, function_args, envVars, received,
                   model_calls, call_log, hist_at_call, ev_mark>>
    /\ UNCHANGED <<appVars, fibVars, pairVars>>

\* lines 215-225: what one executed tool call adds to the request
RequestUpdate(content, tcl, tool_call, res) ==
    << [role |-> "assistant", content |-> content, tool_calls |-> tcl],
       [role |-> "tool", tool_call_id |-> tool_call.id, content |-> res,
        name |-> tool_call.function.name] >>

\* faulty variant: a tool turn is put in front of the tool turns already there
AppendToolTurn_in_front(history, turn) ==
    IF history[Len(history)].role = "tool"
    THEN SubSeq(history, 1, Len(history) - 1) \o <<turn, history[Len(history)]>>
    ELSE Append(history, turn)

\* lines 206-212: self.conversation_history.append(Message(role="tool", ...))
AppendToolTurn(history, turn) == Append(history, turn)

\* lines 205-225: the generator is resumed after the tool_result event
ToolAppend ==
    /\ variant = "cli"
    /\ pc = "tool_append"
    /\ LET tool_call == tool_calls_list[tc_pos]
       IN  /\ conversation_history' =
                 AppendToolTurn(conversation_history,
                                Message("tool", result, <<>>, tool_call.function.name))
           /\ messages' = messages \o RequestUpdate(accumulated_content,
                                                    tool_calls_list, tool_call, result)
    /\ tc_pos' = tc_pos + 1
    /\ pc' = "tool_loop"
    /\ UNCHANGED <<iteration, accVars, tool_calls_list, function_args, result,
                   events, envVars, received, model_calls, call_log, hist_at_call, ev_mark>>
    /\ UNCHANGED <<appVars, fibVars, pairVars>>

\* lines 246-247: after the loop
AfterLoop ==
    /\ variant = "cli"
    /\ pc = "after_loop"
    /\ events' = IF LimitReached(iteration)
                 THEN Append(events, WarningEvent)
                 ELSE events
    /\ pc' = "done"
    /\ UNCHANGED <<conversation_history, messages, iteration, accVars, toolVars,
                   envVars, received, model_calls, call_log, hist_at_call, ev_mark>>
    /\ UNCHANGED <<appVars, fibVars, pairVars>>

(***************************************************************************)
(* CodexApp (src/codex_cli/app.py) around the client.  The user interface  *)
(* may deliver a submission or the clear binding whenever the handler of   *)
(* the message before is suspended: at an await of the transport or of a   *)
(* tool, or at a yield of the generator.                                   *)
(***************************************************************************)
\* where the generator is suspended, or has not started, or has ended
Suspended ==
    pc \in {"idle", "create", "stream", "execute", "tool_append", "after_loop",
            "done", "cancelled"}

\* faulty variant: only a run that was iterated to its end counts as over
RunOver_exhausted_only == pc \in {"idle", "done"}

\* the run of send_message is over: exhausted or abandoned
RunOver == pc \in {"idle", "done", "cancelled"}

\* faulty variant: the handler does not look at the flag
Busy_never(flag) == FALSE

\* app.py line 124: if self.is_processing
Busy(flag) == flag

\* app.py line 127: event.value.strip(), for the inputs of the model
Strip(value) == IF value = " " THEN "" ELSE value

\* app.py lines 122-151: Input.Submitted is handled up to the first await
OnInputSubmitted(value) ==
    /\ Suspended
    /\ inputsLeft > 0
    /\ inputsLeft' = inputsLeft - 1
    /\ IF Busy(is_processing) \/ Strip(value) = ""
       THEN UNCHANGED <<conversation_history, messages, iteration, pc, accVars,
                        toolVars, events, profile, script, chunksLeft,
                        received, model_calls, call_log, hist_at_call, ev_mark,
                        is_processing>>
       ELSE /\ is_processing' = TRUE
            /\ StartRun(Strip(value))
    /\ UNCHANGED <<msgsLeft, variant, clearsLeft, fibVars, pairVars>>

\* app.py lines 268-283: the async for is over, or was left by an exception of
\* the consumer, and the finally clause runs
OnInputFinally ==
    /\ is_processing
    /\ RunOver
    /\ is_processing' = FALSE
    /\ UNCHANGED <<conversation_history, messages, iteration, pc, accVars,
                   toolVars, events, envVars, received, model_calls, call_log,
                   hist_at_call, ev_mark, variant, inputsLeft, clearsLeft,
                   fibVars, pairVars>>

\* the caller stops iterating the generator while it is suspended: nothing of
\* send_message runs any more (it has no finally clause)
Cancel ==
    /\ pc \in {"create", "stream", "execute", "tool_append", "after_loop"}
    /\ pc' = "cancelled"
    /\ UNCHANGED <<conversation_history, messages, iteration, accVars,
                   toolVars, events, envVars, received, model_calls, call_log,
                   hist_at_call, ev_mark, appVars, fibVars, pairVars>>

\* faulty variant: the first turn survives the clear
clear_history_keeps_first(history) == SubSeq(history, 1, 1)

\* client.py lines 249-251 (codex_simple.py line 519)
clear_history(history) == <<>>

\* app.py lines 285-294: the ctrl+l binding
ActionClear ==
    /\ Suspended
    /\ clearsLeft > 0
    /\ clearsLeft' = clearsLeft - 1
    /\ conversation_history' = clear_history(conversation_history)
    /\ UNCHANGED <<messages, iteration, pc, accVars, toolVars, events, envVars,
                   received, model_calls, call_log, hist_at_call, ev_mark,
                   variant, is_processing, inputsLeft, fibVars, pairVars>>

Next ==
    \/ \E m \in UserMessages : SendMessage(m)
    \/ LoopHead
    \/ CreateReturns
    \/ CreateRaises
    \/ StreamChunk
    \/ StreamRaises
    \/ StreamEnds
    \/ ToolLoop
    \/ ExecuteTool
    \/ ToolAppend
    \/ AfterLoop

Spec == Init /\ [][Next]_vars

SpecStream == InitStream /\ [][Next]_vars

\* a step of the generator send_message
RunStep ==
    \/ LoopHead
    \/ CreateReturns
    \/ CreateRaises
    \/ StreamChunk
    \/ StreamRaises
    \/ StreamEnds
    \/ ToolLoop
    \/ ExecuteTool
    \/ ToolAppend
    \/ AfterLoop

\* the caller keeps iterating the generator, and the model and the tools
\* return: a generator that can take a step eventually takes one
SpecLive == InitLive /\ [][Next]_vars /\ WF_vars(RunStep)

\* the application: submissions, the clear binding and abandoned runs
\* interleave with the steps of the generator
NextApp ==
    \/ \E m \in UserMessages : OnInputSubmitted(m)
    \/ OnInputFinally
    \/ ActionClear
    \/ Cancel
    \/ LoopHead
    \/ CreateReturns
    \/ CreateRaises
    \/ StreamChunk
    \/ StreamRaises
    \/ StreamEnds
    \/ ToolLoop
    \/ ExecuteTool
    \/ ToolAppend
    \/ AfterLoop

SpecApp == InitApp /\ [][NextApp]_vars

\* the application with two submissions, one that starts a run and a later
\* one, against the transport that plays the streams of Scripts
InitGuard ==
    /\ InitCommon
    /\ profile = "scripted"
    /\ chunksLeft = 0
    /\ msgsLeft = 0
    /\ variant = "cli"
    /\ inputsLeft = 2
    /\ clearsLeft = 0
    /\ fib_n = 0
    /\ fib_out = NotCalled
    /\ scenario = <<>>
    /\ first_history = <<>>
    /\ first_calls = 0

\* on_input_submitted and the generator it iterates
NextGuard ==
    \/ \E m \in UserMessages : OnInputSubmitted(m)
    \/ OnInputFinally
    \/ Cancel
    \/ LoopHead
    \/ CreateReturns
    \/ CreateRaises
    \/ StreamChunk
    \/ StreamRaises
    \/ StreamEnds
    \/ ToolLoop
    \/ ExecuteTool
    \/ ToolAppend
    \/ AfterLoop

\* the handler is resumed when the generator has yielded or is over, and the
\* generator is resumed while the handler iterates it
SpecGuard ==
    InitGuard /\ [][NextGuard]_vars /\ WF_vars(RunStep) /\ WF_vars(OnInputFinally)

(***************************************************************************)
(* codex_simple.py: the single-file variant.  What it prints on the        *)
(* console is recorded in events, one entry per console.print; the         *)
(* transient Live display is not recorded.                                 *)
(***************************************************************************)
simple_max_iterations == 10

SYSTEM_PROMPT == "You are Codex, an advanced AI coding assistant"

\* codex_simple.py lines 163-171: TOOLS
SimpleToolNames == ToolNames \cup {"get_workspace_info"}

SimpleParams(name) ==
    IF name = "get_workspace_info"
    THEN [all |-> {}, required |-> {}]
    ELSE Params(name)

\* codex_simple.py lines 272-279: execute_tool never raises
simple_execute_tool(name, args) ==
    IF name \notin SimpleToolNames
    THEN "Error: Tool '" \o name \o "' not found"
    ELSE IF \/ ~ (DOMAIN args.value \subseteq SimpleParams(name).all)
            \/ ~ (SimpleParams(name).required \subseteq DOMAIN args.value)
    THEN "Error executing '" \o name \o "': TypeError"
    ELSE Capability(name, args)

\* codex_simple.py lines 427-429: console.print("Error: ...")
SimpleErrorEvent(e) == Ev("Error: " \o e, [type |-> "error"])

\* codex_simple.py lines 340-344: reasoning is only shown in the Live display
SimpleReasoningStep(acc, delta) ==
    IF delta.reasoning # ""
    THEN [acc EXCEPT !.reasoning_active = TRUE,
                     !.reasoning = @ \o delta.reasoning]
    ELSE acc

\* codex_simple.py lines 347-354
SimpleContentStep(acc, delta) ==
    IF delta.content # ""
    THEN LET thought == IF acc.reasoning_active /\ acc.reasoning # ""
                        THEN <<Ev("thought for a moment", [type |-> "thought"])>>
                        ELSE <<>>
         IN  [acc EXCEPT !.reasoning_active = FALSE,
                         !.content = @ \o delta.content,
                         !.out = @ \o thought]
    ELSE acc

\* codex_simple.py lines 359-367, one tc
SimpleToolCallStep(d, tc) ==
    LET idx == tc.index
        d1  == IF idx \notin DOMAIN d
               THEN [i \in DOMAIN d \cup {idx} |->
                        IF i = idx
                        THEN [id |-> "", type |-> "function",
                              function |-> [name |-> "", arguments |-> <<>>]]
                        ELSE d[i]]
               ELSE d
        d2  == IF tc.id # ""
               THEN [d1 EXCEPT ![idx].id = tc.id]
               ELSE d1
        d3  == IF tc.function.name # ""
               THEN [d2 EXCEPT ![idx].function.name = tc.function.name]
               ELSE d2
    IN  IF tc.function.arguments # <<>>
        THEN [d3 EXCEPT ![idx].function.arguments = @ \o tc.function.arguments]
        ELSE d3

\* codex_simple.py lines 357-358: for tc in delta.tool_calls
RECURSIVE SimpleToolCallsStep(_, _)
SimpleToolCallsStep(d, tcs) ==
    IF tcs = <<>> THEN d
    ELSE SimpleToolCallsStep(SimpleToolCallStep(d, Head(tcs)), Tail(tcs))

\* codex_simple.py lines 333-367, one chunk
SimpleProcessChunk(acc, chunk) ==
    IF chunk.choices = <<>>
    THEN acc
    ELSE LET delta == chunk.choices[1].delta
             a1 == SimpleReasoningStep(acc, delta)
             a2 == SimpleContentStep(a1, delta)
         IN  [a2 EXCEPT !.tool_calls_dict = SimpleToolCallsStep(@, delta.tool_calls)]

\* codex_simple.py lines 310-312: main calls send_message(user_input)
SimpleSendMessage(user_message) ==
    /\ variant = "simple"
    /\ pc \in {"idle", "done"}
    /\ msgsLeft > 0
    /\ msgsLeft' = msgsLeft - 1
    /\ LET h == Append(conversation_history,
                       [role |-> "user", content |-> user_message])
       IN  /\ conversation_history' = h
           /\ messages' = <<[role |-> "system", content |-> SYSTEM_PROMPT]>> \o h
    /\ iteration' = 0
    /\ pc' = "loop"
    /\ events' = <<>>
    /\ model_calls' = 0
    /\ call_log' = <<>>
    /\ received' = <<>>
    /\ ev_mark' = 0
    /\ UNCHANGED <<accVars, toolVars, profile, script, chunksLeft, hist_at_call>>
    /\ UNCHANGED <<appVars, fibVars, pairVars>>

\* codex_simple.py line 314: for iteration in range(10); the function ends
\* when the range is exhausted
SimpleLoopHead ==
    /\ variant = "simple"
    /\ pc = "loop"
    /\ IF iteration < simple_max_iterations
       THEN /\ iteration' = iteration + 1
            /\ pc' = "create"
            /\ hist_at_call' = conversation_history
       ELSE /\ pc' = "done"
            /\ UNCHANGED <<iteration, hist_at_call>>
    /\ UNCHANGED <<conversation_history, messages, accVars, toolVars, events,
                   envVars, received, model_calls, call_log, ev_mark>>
    /\ UNCHANGED <<appVars, fibVars, pairVars>>

\* codex_simple.py lines 316-329: chat.completions.create returns a stream
SimpleCreateReturns ==
    /\ variant = "simple"
    /\ pc = "create"
    /\ profile = "replay" => OutcomeAt(model_calls + 1).kind # "create_failed"
    /\ \E s \in Offered : script' = s
    /\ accumulated_content' = ""
    /\ accumulated_reasoning' = ""
    /\ tool_calls_dict' = <<>>
    /\ reasoning_active' = FALSE
    /\ received' = <<>>
    /\ model_calls' = model_calls + 1
    /\ ev_mark' = Len(events)
    /\ pc' = "stream"
    /\ UNCHANGED <<conversation_history, messages, iteration, toolVars, events,
                   profile, chunksLeft, msgsLeft, call_log, hist_at_call>>
    /\ UNCHANGED <<appVars, fibVars, pairVars>>

\* codex_simple.py lines 316-324, 427-429: chat.completions.create raises
SimpleCreateRaises ==
    /\ variant = "simple"
    /\ pc = "create"
    /\ Replays("create_failed", model_calls + 1)
    /\ model_calls' = model_calls + 1
    /\ events' = Append(events, SimpleErrorEvent("APIConnectionError"))
    /\ call_log' = Append(call_log, "create_failed")
    /\ pc' = "done"
    /\ UNCHANGED <<conversation_history, messages, iteration, accVars, toolVars,
                   envVars, received, hist_at_call, ev_mark>>
    /\ UNCHANGED <<appVars, fibVars, pairVars>>

\* codex_simple.py lines 333-367: the stream delivers a chunk
SimpleStreamChunk ==
    /\ variant = "simple"
    /\ pc = "stream"
    /\ \E chunk \in NextChunks :
         LET acc == SimpleProcessChunk(
                      [content |-> accumulated_content,
                       reasoning |-> accumulated_reasoning,
                       tool_calls_dict |-> tool_calls_dict,
                       reasoning_active |-> reasoning_active,
                       out |-> <<>>], chunk)
         IN  /\ accumulated_content' = acc.content
             /\ accumulated_reasoning' = acc.reasoning
             /\ tool_calls_dict' = acc.tool_calls_dict
             /\ reasoning_active' = acc.reasoning_active
             /\ events' = events \o acc.out
             /\ received' = Append(received, chunk)
    /\ script' = IF Scripted THEN Tail(script) ELSE script
    /\ chunksLeft' = IF Scripted THEN chunksLeft ELSE chunksLeft - 1
    /\ UNCHANGED <<conversation_history, messages, iteration, pc, toolVars,
                   profile, msgsLeft, model_calls, call_log, hist_at_call, ev_mark>>
    /\ UNCHANGED <<appVars, fibVars, pairVars>>

\* codex_simple.py lines 333, 427-429: the stream raises while it is consumed
SimpleStreamRaises ==
    /\ variant = "simple"
    /\ pc = "stream"
    /\ profile = "replay" => script = <<>>
    /\ Replays("stream_failed", model_calls)
    /\ events' = Append(events, SimpleErrorEvent("APIError"))
    /\ call_log' = Append(call_log, "stream_failed")
    /\ pc' = "done"
    /\ UNCHANGED <<conversation_history, messages, iteration, accVars, toolVars,
                   envVars, received, model_calls, hist_at_call, ev_mark>>
    /\ UNCHANGED <<appVars, fibVars, pairVars>>

\* codex_simple.py lines 370-382, 421-425: the stream has ended
SimpleStreamEnds ==
    /\ variant = "simple"
    /\ pc = "stream"
    /\ Scripted => script = <<>>
    /\ Replays("ends", model_calls)
    /\ LET shown == IF accumulated_content # ""
                    THEN <<Ev(accumulated_content, [type |-> "content"])>>
                    ELSE <<>>
       IN  IF DOMAIN tool_calls_dict # {}
           THEN /\ tool_calls_list' = ToolCallsList(tool_calls_dict)
                /\ conversation_history' =
                      Append(conversation_history,
                             [role |-> "assistant",
                              content |-> accumulated_content,
                              tool_calls |-> ToolCallsList(tool_calls_dict)])
                /\ events' = events \o shown
                /\ tc_pos' = 1
                /\ pc' = "tool_loop"
           ELSE /\ conversation_history' =
                      IF accumulated_content # ""
                      THEN Append(conversation_history,
                                  [role |-> "assistant",
                                   content |-> accumulated_content])
                      ELSE conversation_history
                /\ events' = events \o shown
                /\ pc' = "done"
                /\ UNCHANGED <<tool_calls_list, tc_pos>>
    /\ call_log' = Append(call_log, Classify(tool_calls_dict))
    /\ UNCHANGED <<messages, iteration, accVars, function_args, result, envVars,
                   received, model_calls, hist_at_call, ev_mark>>
    /\ UNCHANGED <<appVars, fibVars, pairVars>>

\* codex_simple.py lines 385-391, 418-419, 427-429: the head of the for loop
\* over the tool calls; func_args.items() raises when the arguments are not
\* a dict
SimpleToolLoop ==
    /\ variant = "simple"
    /\ pc = "tool_loop"
    /\ IF tc_pos > Len(tool_calls_list)
       THEN /\ events' = Append(events, Ev("", [type |-> "blank"]))
            /\ pc' = "loop"
            /\ UNCHANGED function_args
       ELSE LET tc == tool_calls_list[tc_pos]
                func_args == json_loads(tc.function.arguments)
            IN  IF ~ func_args.ok
                THEN /\ events' = Append(events, SimpleErrorEvent(func_args.value))
                     /\ pc' = "done"
                     /\ UNCHANGED function_args
                ELSE IF func_args.kind # "dict"
                THEN /\ events' = Append(events, SimpleErrorEvent("AttributeError"))
                     /\ pc' = "done"
                     /\ UNCHANGED function_args
                ELSE /\ function_args' = func_args
                     /\ events' = Append(events,
                           Ev("", [type |-> "tool_call",
                                   name |-> tc.function.name,
                                   arguments |-> func_args.value]))
                     /\ pc' = "execute"
    /\ UNCHANGED <<conversation_history, messages, iteration, accVars,
                   tool_calls_list, tc_pos, result, envVars, received,
                   model_calls, call_log, hist_at_call, ev_mark>>
    /\ UNCHANGED <<appVars, fibVars, pairVars>>

\* codex_simple.py lines 394-395: the tool runs and its result is shown
SimpleExecuteTool ==
    /\ variant = "simple"
    /\ pc = "execute"
    /\ LET tc == tool_calls_list[tc_pos]
           r  == simple_execute_tool(tc.function.name, function_args)
       IN  /\ result' = r
           /\ events' = Append(events,
                 Ev("", [type |-> "tool_result",
                         name |-> tc.function.name,
                         result |-> r]))
    /\ pc' = "tool_append"
    /\ UNCHANGED <<conversation_history, messages, iteration, accVars,
                   tool_calls_list, tc_pos, function_args, envVars, received,
                   model_calls, call_log, hist_at_call, ev_mark>>
    /\ UNCHANGED <<appVars, fibVars, pairVars>>

\* codex_simple.py lines 398-416: the tool turn is recorded
SimpleToolAppend ==
    /\ variant = "simple"
    /\ pc = "tool_append"
    /\ LET tc   == tool_calls_list[tc_pos]
           turn == [role |-> "tool", tool_call_id |-> tc.id,
                    content |-> result, name |-> tc.function.name]
       IN  /\ conversation_history' = Append(conversation_history, turn)
           /\ messages' = messages \o
                 << [role |-> "assistant", content |-> accumulated_content,
                     tool_calls |-> tool_calls_list],
                    turn >>
    /\ tc_pos' = tc_pos + 1
    /\ pc' = "tool_loop"
    /\ UNCHANGED <<iteration, accVars, tool_calls_list, function_args, result,
                   events, envVars, received, model_calls, call_log, hist_at_call, ev_mark>>
    /\ UNCHANGED <<appVars, fibVars, pairVars>>

NextSimple ==
    \/ \E m \in UserMessages : SimpleSendMessage(m)
    \/ SimpleLoopHead
    \/ SimpleCreateReturns
    \/ SimpleCreateRaises
    \/ SimpleStreamChunk
    \/ SimpleStreamRaises
    \/ SimpleStreamEnds
    \/ SimpleToolLoop
    \/ SimpleExecuteTool
    \/ SimpleToolAppend

SpecSimple == InitSimple /\ [][NextSimple]_vars

(***************************************************************************)
(* The two variants against the same transport.  A scenario fixes what the *)
(* transport does at each model call; CodexClient.send_message runs first, *)
(* then codex_simple.send_message is given the same message and the same   *)
(* scenario from an empty history.                                         *)
(***************************************************************************)
Ends(chunks) == [kind |-> "ends", script |-> chunks]

OneCall(name, arguments) ==
    <<Chunk("", "", <<TcDelta(0, "tc1", name, arguments)>>), UsageChunk>>

\* what the transport may do at one model call
Outcomes ==
    { Ends(<<FullReadCall, UsageChunk>>),
      Ends(<<Chunk("", "Hel", <<>>), Chunk("", "lo", <<>>)>>),
      Ends(<<UsageChunk>>),
      Ends(OneCall("read_file", <<"{", "file_path", ":">>)),
      Ends(OneCall("read_file", <<"a.txt">>)),
      Ends(OneCall("read_file", <<"{", "}">>)),
      Ends(OneCall("nope", <<"{", "}">>)),
      Ends(OneCall("get_workspace_info", <<"{", "}">>)),
      [kind |-> "create_failed", script |-> <<>>],
      [kind |-> "stream_failed", script |-> <<FullReadCall>>] }

Scenarios ==
    UNION {[1..n -> Outcomes] : n \in 1..MaxScenarioLen}

InitPair ==
    /\ InitCommon
    /\ profile = "replay"
    /\ chunksLeft = 0
    /\ msgsLeft = 1
    /\ variant = "cli"
    /\ inputsLeft = 0
    /\ clearsLeft = 0
    /\ fib_n = 0
    /\ fib_out = NotCalled
    /\ scenario \in Scenarios
    /\ first_history = <<>>
    /\ first_calls = 0

\* the run of CodexClient has ended; what it left is kept, and codex_simple
\* starts with an empty conversation_history (codex_simple.py line 33)
StartSimple ==
    /\ profile = "replay"
    /\ variant = "cli"
    /\ pc = "done"
    /\ first_history' = conversation_history
    /\ first_calls' = model_calls
    /\ variant' = "simple"
    /\ conversation_history' = <<>>
    /\ messages' = <<>>
    /\ msgsLeft' = 1
    /\ pc' = "idle"
    /\ UNCHANGED <<iteration, accVars, toolVars, events, profile, script,
                   chunksLeft, received, model_calls, call_log, hist_at_call,
                   ev_mark, is_processing, inputsLeft, clearsLeft, fibVars,
                   scenario>>

NextPair ==
    \/ \E m \in UserMessages : SendMessage(m)
    \/ LoopHead
    \/ CreateReturns
    \/ CreateRaises
    \/ StreamChunk
    \/ StreamRaises
    \/ StreamEnds
    \/ ToolLoop
    \/ ExecuteTool
    \/ ToolAppend
    \/ AfterLoop
    \/ StartSimple
    \/ \E m \in UserMessages : SimpleSendMessage(m)
    \/ SimpleLoopHead
    \/ SimpleCreateReturns
    \/ SimpleCreateRaises
    \/ SimpleStreamChunk
    \/ SimpleStreamRaises
    \/ SimpleStreamEnds
    \/ SimpleToolLoop
    \/ SimpleExecuteTool
    \/ SimpleToolAppend

SpecPair == InitPair /\ [][NextPair]_vars

(***************************************************************************)
(* workspace/fib.py: fib and _fib_doubling.  Python integers are unbounded; *)
(* the values below MaxFibN stay far inside TLC's integers.                *)
(***************************************************************************)
\* b << 1
ShiftLeft(b, k) == b * 2^k

\* faulty variant: the pairs of the even and the odd case are exchanged
FibCombine_parity_swapped(n, a, b) ==
    LET c == a * (ShiftLeft(b, 1) - a)
        d == a * a + b * b
    IN  IF n % 2 = 0 THEN <<d, c + d>> ELSE <<c, d>>

\* fib.py lines 49-55: from (F(k), F(k+1)) with k = n // 2 to (F(n), F(n+1))
FibCombine(n, a, b) ==
    LET c == a * (ShiftLeft(b, 1) - a)
        d == a * a + b * b
    IN  IF n % 2 = 0 THEN <<c, d>> ELSE <<d, c + d>>

\* fib.py lines 37-55: _fib_doubling, called with n >= 0
RECURSIVE fib_doubling(_)
fib_doubling(n) ==
    IF n = 0
    THEN <<0, 1>>
    ELSE LET p == fib_doubling(n \div 2)
         IN  FibCombine(n, p[1], p[2])

\* fib.py lines 58-67
fib(n) ==
    IF n < 0
    THEN [state |-> "raised", value |-> 0, error |-> "ValueError"]
    ELSE [state |-> "returned", value |-> fib_doubling(n)[1], error |-> ""]

\* fib is called once, with any argument from -MaxFibN to MaxFibN
InitFib ==
    /\ InitCommon
    /\ profile = "scripted"
    /\ chunksLeft = 0
    /\ msgsLeft = 0
    /\ variant = "fib"
    /\ inputsLeft = 0
    /\ clearsLeft = 0
    /\ fib_n \in (0 - MaxFibN)..MaxFibN
    /\ fib_out = NotCalled
    /\ scenario = <<>>
    /\ first_history = <<>>
    /\ first_calls = 0

\* fib.py lines 58-67: fib(n) is called and returns or raises
CallFib ==
    /\ fib_out.state = "not_called"
    /\ fib_out' = fib(fib_n)
    /\ UNCHANGED <<conversation_history, messages, iteration, pc, accVars,
                   toolVars, events, envVars, received, model_calls, call_log,
                   hist_at_call, ev_mark, appVars, fib_n, pairVars>>

NextFib == CallFib

SpecFib == InitFib /\ [][NextFib]_vars

(***************************************************************************)
(* Properties.                                                             *)
(***************************************************************************)
Count(type) == Cardinality({i \in DOMAIN events : events[i].info.type = type})

Last(seq) == seq[Len(seq)]

IsPrefix(a, b) == Len(a) <= Len(b) /\ SubSeq(b, 1, Len(a)) = a

\* the generator is exhausted
Terminal == pc = "done"

\* a step that starts a new run of send_message
RunStarts == pc \in {"idle", "done"} /\ pc' = "loop"

\* the model call of the current iteration failed in the transport
TransportFailed ==
    call_log # <<>> /\ Last(call_log) \in {"create_failed", "stream_failed"}

\* every tool call of every assistant turn is answered by the tool turn at its
\* offset behind that assistant turn
AllToolCallsAnswered(h) ==
    \A i \in DOMAIN h :
        h[i].role = "assistant" =>
            \A j \in 1..Len(h[i].tool_calls) :
                /\ i + j <= Len(h)
                /\ h[i + j].role = "tool"
                /\ h[i + j].name = h[i].tool_calls[j].function.name

\* C1: when a run has ended (complete, error or warning), every tool call
\* listed in an assistant turn of conversation_history has its tool turn
\* behind that assistant turn, also when arguments are not valid JSON.
C1_EveryToolCallAnswered ==
    Terminal => AllToolCallsAnswered(conversation_history)

\* C2: a model call that returned a tool call with malformed arguments, in a
\* run without transport failure, produces no error event, every tool call of
\* the turn gets its tool turn, and the next model call is issued.
C2_BadArgumentsAreToolErrors ==
    (/\ Terminal
     /\ \E k \in DOMAIN call_log : call_log[k] = "bad_tools"
     /\ ~ TransportFailed)
    => /\ Count("error") = 0
       /\ AllToolCallsAnswered(conversation_history)
       /\ \A k \in DOMAIN call_log :
             (call_log[k] = "bad_tools" /\ k < max_iterations) => model_calls > k

\* every model call of the run returned well-formed tool calls
AlwaysToolCalls ==
    /\ call_log # <<>>
    /\ \A k \in DOMAIN call_log : call_log[k] = "tools"

\* C3: when every model call returns well-formed tool calls, the run issues
\* exactly 10 model calls and yields exactly one warning, no complete and no
\* error.
C3_TenCallsThenOneWarning ==
    (Terminal /\ AlwaysToolCalls)
    => /\ model_calls = 10
       /\ Count("warning") = 1
       /\ Count("complete") = 0
       /\ Count("error") = 0

C3_Witness ==
    /\ Terminal
    /\ AlwaysToolCalls
    /\ model_calls = 10
    /\ Count("warning") = 1

\* C4: a run that yields a complete event yields no warning event.
C4_NoWarningAfterComplete ==
    Count("complete") >= 1 => Count("warning") = 0

\* C5: no run yields both an error event and a warning event.
C5_ErrorAndWarningExclusive ==
    ~ (Count("error") >= 1 /\ Count("warning") >= 1)

\* C6: when the first model call returns no tool call, the run makes exactly
\* one model call and yields exactly one complete event and no tool_call or
\* tool_result event.
C6_NoToolsCompletesInOneCall ==
    (call_log # <<>> /\ call_log[1] = "no_tools")
    => /\ model_calls = 1
       /\ Count("complete") = 1
       /\ Count("tool_call") = 0
       /\ Count("tool_result") = 0

C6_Witness ==
    /\ Terminal
    /\ call_log = <<"no_tools">>
    /\ accumulated_content = "Hello"
    /\ Count("complete") = 1

\* C7: after the transport failed on iteration k there is exactly one error
\* event, the turns appended before iteration k are a prefix of the history,
\* and no step of the run issues a model call, runs a tool or changes the
\* history any more.
C7_TransportFailureIsTerminal ==
    /\ [](TransportFailed =>
            /\ Count("error") = 1
            /\ model_calls = iteration
            /\ IsPrefix(hist_at_call, conversation_history))
    /\ [][(TransportFailed /\ ~ RunStarts) =>
            /\ model_calls' = model_calls
            /\ Count("tool_result")' = Count("tool_result")
            /\ Count("error")' = 1
            /\ conversation_history' = conversation_history]_vars

C7_Witness ==
    /\ Terminal
    /\ TransportFailed
    /\ iteration = 3
    /\ Len(hist_at_call) = 5
    /\ Count("error") = 1

\* C8: when the stream of iteration k failed after some deltas were consumed,
\* conversation_history equals the history as it was when iteration k began.
C8_PartialTurnNotAppended ==
    (call_log # <<>> /\ Last(call_log) = "stream_failed")
    => conversation_history = hist_at_call

C8_Witness ==
    /\ Terminal
    /\ call_log # <<>>
    /\ Last(call_log) = "stream_failed"
    /\ iteration = 2
    /\ accumulated_content # ""
    /\ HasToolCalls(tool_calls_dict)

\* the turn a request entry stands for
TurnOfDict(d) ==
    [role |-> d.role,
     content |-> d.content,
     tool_calls |-> IF "tool_calls" \in DOMAIN d THEN d.tool_calls ELSE <<>>,
     name |-> IF "name" \in DOMAIN d THEN d.name ELSE None]

\* C9: whenever a model call is issued, the request is the system turn
\* followed by exactly the turns of conversation_history, in order, each once.
C9_RequestIsSystemPlusHistory ==
    pc = "create" =>
        /\ messages[1] = SystemMessage
        /\ [i \in 1..(Len(messages) - 1) |-> TurnOfDict(messages[i + 1])]
             = [i \in 1..Len(conversation_history) |->
                   Message(conversation_history[i].role,
                           conversation_history[i].content,
                           conversation_history[i].tool_calls,
                           conversation_history[i].name)]

\* the fragments of one kind carried by the chunks, empty ones left out
RECURSIVE Fragments(_, _)
Fragments(chunks, kind) ==
    IF chunks = <<>> THEN <<>>
    ELSE LET c == Head(chunks)
             f == IF c.choices = <<>> THEN ""
                  ELSE IF kind = "content" THEN c.choices[1].delta.content
                  ELSE c.choices[1].delta.reasoning
         IN  (IF f = "" THEN <<>> ELSE <<f>>) \o Fragments(Tail(chunks), kind)

RECURSIVE Concat(_)
Concat(frags) ==
    IF frags = <<>> THEN "" ELSE Head(frags) \o Concat(Tail(frags))

\* the texts of the events of one type yielded since the model call was issued
RECURSIVE TextsOf(_, _)
TextsOf(evs, type) ==
    IF evs = <<>> THEN <<>>
    ELSE (IF Head(evs).info.type = type THEN <<Head(evs).text>> ELSE <<>>)
         \o TextsOf(Tail(evs), type)

EventsOfCall == SubSeq(events, ev_mark + 1, Len(events))

\* C10: the accumulated content (reasoning) is the concatenation, in arrival
\* order, of the non-empty content (reasoning) fragments received in this
\* model call, and the content events carry those fragments in that order.
C10_AccumulationPreservesFragments ==
    pc \in {"stream", "tool_loop", "execute", "tool_append"} =>
        /\ accumulated_content = Concat(Fragments(received, "content"))
        /\ accumulated_reasoning = Concat(Fragments(received, "reasoning"))
        /\ TextsOf(EventsOfCall, "content") = Fragments(received, "content")

C10_Witness ==
    /\ pc = "stream"
    /\ accumulated_content = "HiHel"
    /\ accumulated_reasoning = "Let me hm"
    /\ Len(received) = 3

(***************************************************************************)
(* Tool-call reconstruction, stated from the chunks the stream delivered.  *)
(***************************************************************************)
\* the tool-call fragments of the chunks, in arrival order
RECURSIVE TcDeltasOf(_)
TcDeltasOf(chunks) ==
    IF chunks = <<>> THEN <<>>
    ELSE (IF Head(chunks).choices = <<>>
          THEN <<>>
          ELSE Head(chunks).choices[1].delta.tool_calls)
         \o TcDeltasOf(Tail(chunks))

IndicesSeen(tcs) == {tcs[i].index : i \in DOMAIN tcs}

\* the argument fragments that carried index idx, joined in arrival order
RECURSIVE ArgumentsOf(_, _)
ArgumentsOf(tcs, idx) ==
    IF tcs = <<>> THEN <<>>
    ELSE (IF Head(tcs).index = idx THEN Head(tcs).function.arguments ELSE <<>>)
         \o ArgumentsOf(Tail(tcs), idx)

\* position of idx among the indices seen, smallest first
Rank(S, idx) == Cardinality({j \in S : j < idx}) + 1

InModelCall == pc \in {"stream", "tool_loop", "execute", "tool_append"}

\* C11: whatever the interleaving of the fragments across indices, the
\* finalized tool-call list holds one call per index seen, in ascending index
\* order, and the arguments text of each call is the concatenation, in arrival
\* order, of the argument fragments that carried its index.
C11_ToolCallListFromFragments ==
    InModelCall =>
        LET tcs  == TcDeltasOf(received)
            seen == IndicesSeen(tcs)
            list == ToolCallsList(tool_calls_dict)
        IN  /\ Len(list) = Cardinality(seen)
            /\ \A idx \in seen :
                   list[Rank(seen, idx)].function.arguments = ArgumentsOf(tcs, idx)
            /\ pc # "stream" => tool_calls_list = list

\* index 1 arrives between two fragments of index 0
C11_Witness ==
    /\ pc = "tool_loop"
    /\ LET tcs == TcDeltasOf(received)
       IN  /\ Len(tcs) = 3
           /\ tcs[1].index = 0 /\ tcs[2].index = 1 /\ tcs[3].index = 0
    /\ Len(tool_calls_list) = 2
    /\ tool_calls_list[1].function.arguments = <<"{", "file_path", ":", "missing.txt", "}">>
    /\ tool_calls_list[2].function.name = "nope"

\* the last non-empty name fragment that carried index idx, "" if there is none
RECURSIVE LastNameOf(_, _)
LastNameOf(tcs, idx) ==
    IF tcs = <<>> THEN ""
    ELSE LET t == tcs[Len(tcs)]
         IN  IF t.index = idx /\ t.function.name # ""
             THEN t.function.name
             ELSE LastNameOf(SubSeq(tcs, 1, Len(tcs) - 1), idx)

InToolPhase == pc \in {"tool_loop", "execute", "tool_append"}

EventsOfType(evs, type) == SelectSeq(evs, LAMBDA e : e.info.type = type)

\* the tool calls of the current turn whose execution has returned
Executed == IF pc = "tool_append" THEN tc_pos ELSE tc_pos - 1

\* the stream delivered exactly the two fragments of the split call
SplitNameReceived ==
    received = <<SplitNameHead, SplitNameTail>>

\* C12 as stated: when the name of a tool call arrives as "read_" then "file",
\* the name handed to the tool executor and recorded in history is "read_file".
C12_SplitNameIsJoined ==
    (SplitNameReceived /\ pc = "tool_append") =>
        /\ tool_calls_list[1].function.name = "read_file"
        /\ Last(events).info.name = "read_file"

\* C12, amended: the name of each tool call is the last non-empty name fragment
\* of its index ("file" for "read_" then "file"); that name is the one handed
\* to the tool executor and recorded in the tool turn, and the executor runs
\* exactly once for each call reached.
C12_SplitNameKeepsLastFragment ==
    InToolPhase =>
        LET tcs     == TcDeltasOf(received)
            seen    == IndicesSeen(tcs)
            results == EventsOfType(EventsOfCall, "tool_result")
            base    == Len(hist_at_call) + 1
        IN  /\ \A idx \in seen :
                   tool_calls_list[Rank(seen, idx)].function.name = LastNameOf(tcs, idx)
            /\ Len(results) = Executed
            /\ \A k \in 1..Executed :
                   results[k].info.name = tool_calls_list[k].function.name
            /\ \A k \in 1..(tc_pos - 1) :
                   /\ conversation_history[base + k].role = "tool"
                   /\ conversation_history[base + k].name = tool_calls_list[k].function.name

C12_Witness ==
    /\ SplitNameReceived
    /\ pc = "tool_loop"
    /\ tc_pos = 2
    /\ tool_calls_list[1].function.name = "file"
    /\ tool_calls_list[1].function.arguments = <<"{", "file_path", ":", "a.txt", "}">>
    /\ Last(conversation_history).name = "file"
    /\ Len(EventsOfType(EventsOfCall, "tool_result")) = 1

\* the results yielded for the tool calls of the current turn, in order
ResultsOfCall == EventsOfType(EventsOfCall, "tool_result")

\* C13: the tool calls of one assistant turn are executed one at a time in
\* the order of the tool-call list: when call k is taken up, the tool turns of
\* the calls before it are the last turns of the history, and the tool turns
\* behind the assistant turn follow the order of its tool-call list.
C13_ToolCallsRunInListOrder ==
    InToolPhase =>
        LET base == Len(hist_at_call) + 1
        IN  /\ conversation_history[base] =
                   AssistantTurn(accumulated_content, tool_calls_list)
            /\ Len(conversation_history) = base + (tc_pos - 1)
            /\ Len(EventsOfType(EventsOfCall, "tool_call")) = Executed
                   + (IF pc = "execute" THEN 1 ELSE 0)
            /\ Len(ResultsOfCall) = Executed
            /\ \A k \in 1..(tc_pos - 1) :
                   conversation_history[base + k] =
                       Message("tool", ResultsOfCall[k].info.result, <<>>,
                               tool_calls_list[k].function.name)
            /\ \A k \in 1..Executed :
                   ResultsOfCall[k].info.id = tool_calls_list[k].id

\* two calls of one turn, both answered
C13_Witness ==
    /\ pc = "tool_loop"
    /\ Len(tool_calls_list) = 2
    /\ tc_pos = 3
    /\ tool_calls_list[1].function.name = "read_file"
    /\ tool_calls_list[2].function.name = "nope"
    /\ conversation_history[Len(conversation_history) - 1].name = "read_file"
    /\ Last(conversation_history).name = "nope"

\* C14: a follow-up model call is issued only when every tool call of the
\* previous turn has been executed and its tool turn appended: the history
\* then ends with the assistant turn and one tool turn per call of its list.
C14_FollowUpAfterAllToolTurns ==
    (pc = "create" /\ iteration > 1) =>
        LET n    == Len(tool_calls_list)
            base == Len(conversation_history) - n
        IN  /\ n >= 1
            /\ tc_pos = n + 1
            /\ base >= 1
            /\ conversation_history[base].role = "assistant"
            /\ conversation_history[base].tool_calls = tool_calls_list
            /\ Len(ResultsOfCall) = n
            /\ \A k \in 1..n :
                   /\ conversation_history[base + k].role = "tool"
                   /\ conversation_history[base + k].name = tool_calls_list[k].function.name
                   /\ conversation_history[base + k].content = ResultsOfCall[k].info.result

\* the second model call is issued after a turn with two tool calls
C14_Witness ==
    /\ pc = "create"
    /\ iteration = 2
    /\ Len(tool_calls_list) = 2
    /\ Last(conversation_history).role = "tool"

(***************************************************************************)
(* The tool executor.                                                      *)
(***************************************************************************)
\* names and arguments texts the executor is tried on besides those the
\* streams produce: unregistered names, missing and unexpected keys, a wrong
\* value type, arguments that are not a mapping
ProbeNames == ToolNames \cup {"nope", "file", ""}

ProbeArguments ==
    { <<"{", "}">>,
      <<"{", "file_path", ":", "a.txt", "}">>,
      <<"{", "file_path", ":", "missing.txt", "}">>,
      <<"{", "file_path", ":", "1", "}">>,
      <<"{", "a.txt", ":", "a.txt", "}">>,
      <<"a.txt">>,
      <<"1">> }

CurrentCall == tool_calls_list[tc_pos]

\* C15: execute_tool is total: for every tool name, registered or not, and
\* every arguments value (missing or unexpected keys, a capability that
\* raises), it returns its result and no exception escapes into the loop.
C15_ExecuteToolIsTotal ==
    /\ pc = "idle" =>
          \A name \in ProbeNames : \A text \in ProbeArguments :
             /\ json_loads(text).ok
             /\ ~ execute_tool(name, json_loads(text)).raised
    /\ pc = "execute" =>
          ~ execute_tool(CurrentCall.function.name, function_args).raised
    /\ pc = "tool_append" =>
          /\ Last(events).info.type = "tool_result"
          /\ Last(events).info.result = result
          /\ result = execute_tool(CurrentCall.function.name, function_args).value

\* read_file is called without its file_path argument
C15_Witness ==
    /\ pc = "tool_append"
    /\ CurrentCall.function.name = "read_file"
    /\ function_args.value = json_loads(<<"{", "}">>).value
    /\ result = "Error executing tool 'read_file': TypeError"

NotFound(name) == "Error: Tool '" \o name \o "' not found"

\* C16: a tool call naming a tool that is not registered gets the result
\* "Error: Tool '<name>' not found" without any capability being called; the
\* result is appended as an ordinary tool turn and the for loop goes on.
C16_UnknownToolIsNotFound ==
    /\ [](\A i \in DOMAIN conversation_history :
            (/\ conversation_history[i].role = "tool"
             /\ conversation_history[i].name \notin ToolNames)
            => conversation_history[i].content = NotFound(conversation_history[i].name))
    /\ [][ (pc = "execute" /\ CurrentCall.function.name \notin ToolNames) =>
             /\ ~ execute_tool(CurrentCall.function.name, function_args).invoked
             /\ result' = NotFound(CurrentCall.function.name)
             /\ pc' = "tool_append"
             /\ Count("error")' = 0 ]_vars
    /\ [][ (pc = "tool_append" /\ CurrentCall.function.name \notin ToolNames) =>
             /\ conversation_history' =
                    Append(conversation_history,
                           Message("tool", NotFound(CurrentCall.function.name), <<>>,
                                   CurrentCall.function.name))
             /\ pc' = "tool_loop"
             /\ tc_pos' = tc_pos + 1 ]_vars

C16_Witness ==
    /\ pc = "tool_loop"
    /\ tc_pos = 2
    /\ tool_calls_list[1].function.name = "nope"
    /\ Last(conversation_history).role = "tool"
    /\ Last(conversation_history).content = "Error: Tool 'nope' not found"
    /\ Count("error") = 0

\* the results by which a tool reports a failure
ErrorResults ==
    {NotFound(n) : n \in ProbeNames}
    \cup {"Error executing tool '" \o n \o "': TypeError" : n \in ToolNames}
    \cup {"Error: File '" \o f \o "' not found" : f \in StrLits}
    \cup {"Error reading file: unsupported operand type(s)"}

\* C17: a tool execution that ends in an error result does not end the loop:
\* no error event is yielded, the error string is appended as a tool turn, and
\* the run goes on to a further model call unless max_iterations calls were made.
C17_ToolErrorDoesNotEndLoop ==
    /\ [][ (/\ pc = "execute"
            /\ execute_tool(CurrentCall.function.name, function_args).value
                   \in ErrorResults) =>
             /\ result' \in ErrorResults
             /\ Last(events').info.type = "tool_result"
             /\ Count("error")' = 0
             /\ pc' = "tool_append" ]_vars
    /\ [][ (pc = "tool_append" /\ result \in ErrorResults) =>
             /\ Last(conversation_history') =
                    Message("tool", result, <<>>, CurrentCall.function.name)
             /\ pc' = "tool_loop" ]_vars
    /\ []((Terminal /\ call_log # <<>> /\ Last(call_log) = "tools") =>
             /\ Count("error") = 0
             /\ model_calls = max_iterations)

\* read_file fails on a missing path and a second model call follows
C17_Witness ==
    /\ Terminal
    /\ model_calls = 2
    /\ Count("error") = 0
    /\ \E i \in DOMAIN conversation_history :
          /\ conversation_history[i].role = "tool"
          /\ conversation_history[i].name = "read_file"
          /\ conversation_history[i].content = "Error: File 'missing.txt' not found"

\* the turns appended since the current model call was issued
TurnsOfCall ==
    SubSeq(conversation_history, Len(hist_at_call) + 1, Len(conversation_history))

\* C18: when one model turn returns both content and tool calls, exactly one
\* assistant turn is appended for that model call, carrying the whole
\* accumulated content and the whole tool-call list; the tool calls are then
\* executed and a follow-up model call is issued.
C18_ContentAndToolCallsInOneTurn ==
    /\ (InToolPhase /\ Fragments(received, "content") # <<>>) =>
          /\ IsPrefix(hist_at_call, conversation_history)
          /\ TurnsOfCall # <<>>
          /\ TurnsOfCall[1] =
                 Message("assistant", Concat(Fragments(received, "content")),
                         ToolCallsList(tool_calls_dict), None)
          /\ Len(TurnsOfCall[1].tool_calls) = Cardinality(IndicesSeen(TcDeltasOf(received)))
          /\ \A i \in 2..Len(TurnsOfCall) : TurnsOfCall[i].role = "tool"
    /\ (/\ Terminal
        /\ call_log # <<>> /\ Last(call_log) = "tools"
        /\ Fragments(received, "content") # <<>>) =>
          model_calls = max_iterations
    /\ (pc = "create" /\ iteration > 1 /\ accumulated_content # "") =>
          LET n == Len(tool_calls_list)
          IN  /\ conversation_history[Len(conversation_history) - n] =
                     Message("assistant", accumulated_content, tool_calls_list, None)
              /\ \A k \in 1..n :
                     conversation_history[Len(conversation_history) - n + k].role = "tool"

\* content "Hel" and a read_file call in one turn, then the second model call
C18_Witness ==
    /\ pc = "create"
    /\ iteration = 2
    /\ accumulated_content = "Hel"
    /\ Len(tool_calls_list) = 1
    /\ conversation_history[2].role = "assistant"
    /\ conversation_history[2].content = "Hel"
    /\ conversation_history[2].tool_calls = tool_calls_list
    /\ Len(conversation_history) = 3

\* C19: a model call that returns neither content nor tool calls ends the
\* loop as a normal completion: a complete event is yielded, no error event,
\* and no assistant turn is appended for that model call.
C19_EmptyResponseCompletes ==
    (/\ pc \in {"after_loop", "done"}
     /\ call_log # <<>> /\ Last(call_log) = "no_tools"
     /\ Fragments(received, "content") = <<>>) =>
        /\ Count("complete") = 1
        /\ Count("error") = 0
        /\ Last(EventsOfCall).info.type \in {"complete", "warning"}
        /\ EventsOfType(EventsOfCall, "content") = <<>>
        /\ conversation_history = hist_at_call

\* a response of reasoning only, and an empty response after a tool turn
C19_Witness ==
    /\ Terminal
    /\ Last(call_log) = "no_tools"
    /\ accumulated_content = ""
    /\ \/ accumulated_reasoning # "" /\ iteration = 1
       \/ iteration = 2 /\ Last(conversation_history).role = "tool"
    /\ Count("complete") = 1
    /\ Count("warning") = 0

(***************************************************************************)
(* The thinking phases among the events of one model call.                 *)
(***************************************************************************)
\* how many of the events a..b of the current model call have the type
NumberOf(type, a, b) ==
    Cardinality({i \in a..b : EventsOfCall[i].info.type = type})

TypeAt(i) == EventsOfCall[i].info.type

\* C20: in a model call with reasoning, a thinking_start precedes the first
\* reasoning event, exactly one thinking_end lies between a thinking_start and
\* the first content event behind it, and no content event is yielded while
\* a thinking phase is open.
C20_ThinkingPhaseClosedBeforeContent ==
    LET n == Len(EventsOfCall)
    IN  /\ \A r \in 1..n :
              TypeAt(r) = "reasoning" =>
                  /\ NumberOf("thinking_start", 1, r - 1) >= 1
                  /\ NumberOf("thinking_start", 1, r - 1)
                        = NumberOf("thinking_end", 1, r - 1) + 1
        /\ \A s \in 1..n : \A c \in (s + 1)..n :
              (/\ TypeAt(s) = "thinking_start"
               /\ TypeAt(c) = "content"
               /\ NumberOf("content", s + 1, c - 1) = 0) =>
                  NumberOf("thinking_end", s + 1, c - 1) = 1
        /\ \A c \in 1..n :
              TypeAt(c) = "content" =>
                  NumberOf("thinking_start", 1, c - 1)
                     = NumberOf("thinking_end", 1, c - 1)

\* two reasoning fragments, then content
C20_Witness ==
    /\ pc = "stream"
    /\ Len(EventsOfCall) = 5
    /\ [i \in 1..5 |-> TypeAt(i)] =
          <<"thinking_start", "reasoning", "reasoning", "thinking_end", "content">>
    /\ accumulated_reasoning = "Let me think"

\* C21: within one model call the phase markers are yielded at most once: at
\* most one thinking_start and at most one thinking_end, however reasoning
\* and content fragments interleave.
C21_PhaseMarkersAtMostOnce ==
    LET n == Len(EventsOfCall)
    IN  /\ NumberOf("thinking_start", 1, n) <= 1
        /\ NumberOf("thinking_end", 1, n) <= 1

(***************************************************************************)
(* The application around the client.                                      *)
(***************************************************************************)
InFlight == ~ RunOver

NumUserTurns(h) == Cardinality({i \in DOMAIN h : h[i].role = "user"})

\* C22: at most one agent loop runs against the conversation: a submission
\* made while a run of send_message has not ended starts no second run and
\* appends no user turn; the flag is_processing is set all through a run.
C22_OneRunAtATime ==
    /\ [](InFlight => is_processing)
    /\ [][ InFlight =>
             /\ NumUserTurns(conversation_history') <= NumUserTurns(conversation_history)
             /\ model_calls' >= model_calls
             /\ IsPrefix(events, events') ]_vars

\* both submissions were made, the second while the first run was in flight
C22_Witness ==
    /\ InFlight
    /\ inputsLeft = MaxInputs - 2
    /\ clearsLeft = MaxClears
    /\ NumUserTurns(conversation_history) = 1
    /\ model_calls >= 1

ClearStep == clearsLeft' < clearsLeft

\* C24: clear yields an empty history whatever its size was, never a partial
\* one, and a send_message that starts on the cleared history sends only
\* the system turn and the new user turn.
C24_ClearEmptiesHistory ==
    /\ [][ ClearStep => conversation_history' = <<>> ]_vars
    /\ [][ (/\ clearsLeft < MaxClears
            /\ conversation_history = <<>>
            /\ RunOver /\ pc' = "loop") =>
             /\ Len(conversation_history') = 1
             /\ conversation_history'[1].role = "user"
             /\ messages' = <<SystemMessage, [role |-> "user", content |-> "hi"]>> ]_vars

\* two submissions were accepted, the history of the first was cleared before
\* the second
C24_Witness ==
    /\ pc = "loop"
    /\ iteration = 0
    /\ inputsLeft = MaxInputs - 2
    /\ clearsLeft = MaxClears - 1
    /\ Len(conversation_history) = 1
    /\ Len(messages) = 2

\* C25: every tool turn in conversation_history has a non-empty name, also for
\* a response whose tool-call fragments never carry a name.
C25_ToolTurnNameNotEmpty ==
    \A i \in DOMAIN conversation_history :
        conversation_history[i].role = "tool" =>
            /\ conversation_history[i].name # ""
            /\ conversation_history[i].name # None

SendMessageOnlyAppends ==
    [][ (InFlight /\ ~ ClearStep) =>
           IsPrefix(conversation_history, conversation_history') ]_vars

\* C27: one run of send_message issues at most max_iterations model calls,
\* the iteration counter never exceeds max_iterations, and the run reaches a
\* terminal state, in which a complete, error or warning event was yielded.
C27_RunIsBoundedAndEnds ==
    /\ [](iteration <= max_iterations /\ model_calls <= max_iterations)
    /\ [](model_calls = Len(call_log) + (IF pc = "stream" THEN 1 ELSE 0))
    /\ [](Terminal =>
            Count("complete") + Count("error") + Count("warning") >= 1)
    /\ (InFlight ~> Terminal)

\* a run that ends by completion at the tenth model call
C27_Witness ==
    /\ Terminal
    /\ iteration = max_iterations
    /\ model_calls = max_iterations
    /\ Last(call_log) = "no_tools"
    /\ Count("complete") = 1

\* C29: in the single-file variant too, a run in which all 10 model calls
\* return tool calls ends by reporting the iteration-limit cutoff: once the
\* run has ended, a warning, distinct from an error, has been printed.
C29_SimpleReportsIterationLimit ==
    (variant = "simple" /\ Terminal /\ AlwaysToolCalls
        /\ model_calls = simple_max_iterations)
    => /\ Count("warning") >= 1
       /\ Count("error") = 0

\* the run of C29 is bounded as in CodexClient: 10 model calls, no error
SimpleStopsAfterTenCalls ==
    variant = "simple"
    => /\ model_calls <= simple_max_iterations
       /\ (Terminal /\ AlwaysToolCalls)
          => (model_calls = simple_max_iterations /\ Count("error") = 0)

\* the content the current model call has received
ContentOfCall == Concat(Fragments(received, "content"))

\* C30: the accumulator is per model call.  When a call's stream is opened
\* the content, the reasoning, the tool-call table and the reasoning-active
\* flag are empty/false; the assistant turn of a call holds the content and
\* as many tool calls as indices received in that call only; a call that
\* receives no reasoning yields no thinking_end, whatever the call before
\* left open, and a call that receives reasoning yields its own
\* thinking_start.
C30_AccumulatorIsPerModelCall ==
    /\ (pc = "stream" /\ received = <<>>) =>
          /\ accumulated_content = ""
          /\ accumulated_reasoning = ""
          /\ tool_calls_dict = <<>>
          /\ ~ reasoning_active
    /\ InToolPhase =>
          /\ TurnsOfCall # <<>>
          /\ TurnsOfCall[1].role = "assistant"
          /\ TurnsOfCall[1].content = ContentOfCall
          /\ Len(TurnsOfCall[1].tool_calls)
                = Cardinality(IndicesSeen(TcDeltasOf(received)))
    /\ (pc \in {"after_loop", "done"} /\ call_log # <<>>
           /\ Last(call_log) = "no_tools") =>
          TurnsOfCall = IF ContentOfCall # ""
                        THEN <<Message("assistant", ContentOfCall, <<>>, None)>>
                        ELSE <<>>
    /\ (InModelCall /\ Fragments(received, "reasoning") = <<>>) =>
          /\ EventsOfType(EventsOfCall, "thinking_end") = <<>>
          /\ ~ reasoning_active
    /\ (InModelCall /\ Fragments(received, "reasoning") # <<>>) =>
          EventsOfType(EventsOfCall, "thinking_start") # <<>>

\* the first call receives reasoning and a tool call and ends with the
\* thinking phase open; the second call receives content only
C30_Witness ==
    /\ pc = "done"
    /\ model_calls = 2
    /\ Len(conversation_history) = 4
    /\ conversation_history[2].tool_calls # <<>>
    /\ received = <<Chunk("", "Hel", <<>>)>>
    /\ conversation_history[4] = Message("assistant", "Hel", <<>>, None)
    /\ Count("thinking_start") = 1
    /\ Count("thinking_end") = 1
    /\ EventsOfType(EventsOfCall, "thinking_end") = <<>>

\* the last non-empty id fragment that carried index idx, "" if there is none
RECURSIVE LastIdOf(_, _)
LastIdOf(tcs, idx) ==
    IF tcs = <<>> THEN ""
    ELSE LET t == tcs[Len(tcs)]
         IN  IF t.index = idx /\ t.id # ""
             THEN t.id
             ELSE LastIdOf(SubSeq(tcs, 1, Len(tcs) - 1), idx)

\* C31: for each tool-call index, the id of the entry is the last non-empty
\* id fragment received for that index and its name is the last non-empty
\* name fragment received for it ("" if none was received): id and name are
\* overwritten.  Its arguments are all the argument fragments of the index in
\* arrival order: arguments are appended.  The finalized list carries the
\* entries unchanged.
C31_IdAndNameOverwrittenArgumentsAppended ==
    InModelCall =>
        LET tcs  == TcDeltasOf(received)
            seen == IndicesSeen(tcs)
        IN  /\ DOMAIN tool_calls_dict = seen
            /\ \A idx \in seen :
                  /\ tool_calls_dict[idx].id = LastIdOf(tcs, idx)
                  /\ tool_calls_dict[idx].function.name = LastNameOf(tcs, idx)
                  /\ tool_calls_dict[idx].function.arguments = ArgumentsOf(tcs, idx)
                  /\ pc # "stream" =>
                        tool_calls_list[Rank(seen, idx)] = tool_calls_dict[idx]

\* index 0 received the ids tc1 then tc9, the names read_ then file, and its
\* arguments in two fragments
C31_Witness ==
    /\ pc = "tool_loop"
    /\ received = <<SplitNameHead, SplitNameTail, LateId>>
    /\ tool_calls_list[1].id = "tc9"
    /\ tool_calls_list[1].function.name = "file"
    /\ tool_calls_list[1].function.arguments = <<"{", "file_path", ":", "a.txt", "}">>

\* the Fibonacci numbers by their recurrence: (F(n), F(n+1)) with F(0) = 0,
\* F(1) = 1 and F(n) = F(n-1) + F(n-2)
RECURSIVE FibonacciPair(_)
FibonacciPair(n) ==
    IF n = 0 THEN <<0, 1>>
    ELSE LET p == FibonacciPair(n - 1)
         IN  <<p[2], p[1] + p[2]>>

\* C32: fib(n) returns, for every n >= 0, the n-th Fibonacci number under
\* zero-based indexing, the fast-doubling function returning exactly
\* (F(n), F(n+1)); fib raises ValueError for n < 0.
C32_FibIsFibonacci ==
    /\ fib_n >= 0 => fib_doubling(fib_n) = FibonacciPair(fib_n)
    /\ fib_out.state # "not_called" =>
          IF fib_n < 0
          THEN fib_out.state = "raised" /\ fib_out.error = "ValueError"
          ELSE fib_out.state = "returned"
               /\ fib_out.value = FibonacciPair(fib_n)[1]

\* fib(30) has returned 832040
C32_Witness ==
    /\ fib_n = 30
    /\ fib_out.state = "returned"
    /\ fib_out.value = 832040

\* the tool_call and tool_result events of the run, in the order yielded
ToolEvents ==
    SelectSeq(events, LAMBDA e : e.info.type \in {"tool_call", "tool_result"})

\* the tool turns appended since the current model call was issued
ToolTurnsOfCall == SelectSeq(TurnsOfCall, LAMBDA t : t.role = "tool")

\* C33: the tool events form matched, non-overlapping pairs.  Every
\* tool_result event is immediately preceded, among the tool events, by a
\* tool_call event with the same id and name; a tool_call event is followed
\* by its tool_result before any other event, and while it is the last event
\* the run is executing the tool or was cancelled; the tool turn of a call is
\* appended only after its tool_result event was yielded, and carries that
\* result.
C33_ToolEventsArePaired ==
    /\ \A k \in DOMAIN ToolEvents :
          IF k % 2 = 1
          THEN ToolEvents[k].info.type = "tool_call"
          ELSE /\ ToolEvents[k].info.type = "tool_result"
               /\ ToolEvents[k].info.id = ToolEvents[k - 1].info.id
               /\ ToolEvents[k].info.name = ToolEvents[k - 1].info.name
    /\ \A i \in DOMAIN events :
          events[i].info.type = "tool_call" =>
             IF i < Len(events)
             THEN /\ events[i + 1].info.type = "tool_result"
                  /\ events[i + 1].info.id = events[i].info.id
             ELSE pc \in {"execute", "cancelled"}
    /\ InToolPhase =>
          /\ Len(ToolTurnsOfCall) <= Len(ResultsOfCall)
          /\ \A k \in DOMAIN ToolTurnsOfCall :
                /\ ToolTurnsOfCall[k].content = ResultsOfCall[k].info.result
                /\ ToolTurnsOfCall[k].name = ResultsOfCall[k].info.name

\* two tool calls of one turn were executed: four tool events, two tool turns
C33_Witness ==
    /\ pc = "tool_loop"
    /\ tc_pos = 3
    /\ Len(ToolEvents) = 4
    /\ ToolEvents[1].info.id = "tc1" /\ ToolEvents[2].info.id = "tc1"
    /\ ToolEvents[3].info.id = "tc2" /\ ToolEvents[4].info.id = "tc2"
    /\ Len(ToolTurnsOfCall) = 2

\* the runs of send_message started so far in a session of MaxMessages messages
RunsStarted == MaxMessages - msgsLeft

\* the very first model call of the run that has ended failed in the transport
FirstCallFailed == TransportFailed /\ model_calls = 1 /\ Len(call_log) = 1

UserDict(m) == [role |-> "user", content |-> m]

\* C34: each run of send_message appends exactly one user turn, before the
\* first model call; the user turn stays in the history when the very first
\* model call fails with a transport error, so that the request of the run
\* started next ends with two consecutive user turns.
C34_UserTurnStaysAfterFailure ==
    /\ [](NumUserTurns(conversation_history) = RunsStarted)
    /\ [][RunStarts =>
            /\ \E m \in UserMessages :
                  conversation_history' =
                     Append(conversation_history, Message("user", m, <<>>, None))
            /\ model_calls' = 0]_vars
    /\ [](FirstCallFailed =>
            /\ conversation_history = hist_at_call
            /\ Last(conversation_history).role = "user")
    /\ [][(FirstCallFailed /\ RunStarts) =>
            LET n == Len(messages')
            IN  /\ messages' = InitialMessages(conversation_history')
                /\ n >= 3
                /\ \E m1, m2 \in UserMessages :
                      /\ messages'[n - 1] = UserDict(m1)
                      /\ messages'[n] = UserDict(m2)]_vars

\* the first message failed at its first model call; the request of the
\* second message is the system turn and the two user turns
C34_Witness ==
    /\ pc = "create"
    /\ iteration = 1
    /\ msgsLeft = 0
    /\ Len(conversation_history) = 2
    /\ messages = <<SystemMessage, UserDict("hi"), UserDict("hi")>>

\* the stream of the last model call issued has ended normally
StreamEndedNormally ==
    /\ pc # "stream"
    /\ call_log # <<>>
    /\ Len(call_log) = model_calls
    /\ Last(call_log) \in {"tools", "no_tools", "bad_tools"}

\* C35: whenever the stream of a model call has ended normally, every
\* thinking_start yielded during that call is matched by a thinking_end:
\* the two alternate, starting with thinking_start, there are as many of one
\* as of the other, and all of them lie before the first tool_call, complete
\* or error event of the call.
C35_ThinkingStartIsMatched ==
    StreamEndedNormally =>
        LET n == Len(EventsOfCall)
            markers == SelectSeq(EventsOfCall,
                          LAMBDA e : e.info.type \in {"thinking_start", "thinking_end"})
        IN  /\ NumberOf("thinking_start", 1, n) = NumberOf("thinking_end", 1, n)
            /\ \A k \in DOMAIN markers :
                  markers[k].info.type =
                     IF k % 2 = 1 THEN "thinking_start" ELSE "thinking_end"
            /\ \A i \in 1..n :
                  TypeAt(i) \in {"tool_call", "complete", "error"} =>
                     /\ NumberOf("thinking_start", 1, i - 1)
                           = NumberOf("thinking_end", 1, i - 1)
                     /\ NumberOf("thinking_start", i, n) = 0
                     /\ NumberOf("thinking_end", i, n) = 0

\* reasoning is followed directly by a tool call, with no content
C35_Witness ==
    /\ pc = "execute"
    /\ Fragments(received, "content") = <<>>
    /\ Len(EventsOfCall) = 4
    /\ [i \in 1..4 |-> TypeAt(i)] =
          <<"thinking_start", "reasoning", "thinking_end", "tool_call">>

\* a submission is handled
SubmitStep == inputsLeft' < inputsLeft

\* C36: the processing guard of CodexApp is always released.  The flag is
\* set only by a submission that starts a run and is reset only when the run
\* is over; once set it is eventually reset, whether the run ends with
\* complete, error or warning or is left by an exception; and a submission
\* handled while the flag is reset is accepted.
C36_ProcessingGuardIsReleased ==
    /\ is_processing ~> ~ is_processing
    /\ [][(is_processing /\ ~ is_processing') => RunOver]_vars
    /\ [][(~ is_processing /\ is_processing') => (SubmitStep /\ pc' = "loop")]_vars
    /\ [][(SubmitStep /\ ~ is_processing) => (is_processing' /\ pc' = "loop")]_vars

\* the first run ended without a turn of its own, the guard was released
\* and the second submission was accepted
C36_Witness ==
    /\ is_processing
    /\ inputsLeft = 0
    /\ Len(conversation_history) = 2
    /\ conversation_history[2].role = "user"
    /\ pc = "loop"

\* both variants have run the scenario to the end
BothDone == profile = "replay" /\ variant = "simple" /\ pc = "done"

\* a turn by the fields the variants are compared on
TurnsOf(h) == [i \in 1..Len(h) |-> TurnOfDict(h[i])]

ToolResultsOf(h) == SelectSeq(TurnsOf(h), LAMBDA t : t.role = "tool")

\* every tool execution that both variants made returned the same result
SameToolResults ==
    LET a == ToolResultsOf(first_history)
        b == ToolResultsOf(conversation_history)
    IN  \A k \in DOMAIN a \cap DOMAIN b : a[k].content = b[k].content

\* C37: the two variants of the agent loop are equivalent on Conversation:
\* for the same user message, the same streams and the same tool results,
\* codex_simple.send_message issues as many model calls as
\* CodexClient.send_message and appends the same sequence of turns (role,
\* content, tool-call list, tool name), on every outcome.
C37_VariantsAgreeOnConversation ==
    (BothDone /\ SameToolResults) =>
        /\ model_calls = first_calls
        /\ TurnsOf(conversation_history) = TurnsOf(first_history)

\* some model call of the scenario returns a tool call whose arguments are
\* JSON but not an object
HasScalarArguments ==
    \E k \in DOMAIN scenario :
        /\ scenario[k].kind = "ends"
        /\ LET tcs == TcDeltasOf(scenario[k].script)
           IN  /\ tcs # <<>>
               /\ json_loads(ArgumentsOf(tcs, 0)).kind = "scalar"

\* the variants agree whenever no tool call has arguments that are JSON but
\* not an object, and the tool results are the same
VariantsAgreeOnObjectArguments ==
    (BothDone /\ SameToolResults /\ ~ HasScalarArguments) =>
        /\ model_calls = first_calls
        /\ TurnsOf(conversation_history) = TurnsOf(first_history)

\* entry i of a request is a tool turn that carries the id of a tool call of
\* an assistant entry before it
ToolEntryKeepsId(msgs, i) ==
    /\ "tool_call_id" \in DOMAIN msgs[i]
    /\ \E j \in 1..(i - 1) :
          /\ msgs[j].role = "assistant"
          /\ "tool_calls" \in DOMAIN msgs[j]
          /\ \E k \in DOMAIN msgs[j].tool_calls :
                msgs[j].tool_calls[k].id = msgs[i].tool_call_id

\* C38: a tool turn keeps the correlation to its tool call when the
\* Conversation is replayed: in every request, also the one built for a later
\* user message, every tool turn carries the id of the tool call it answers.
C38_ToolTurnKeepsIdOnReplay ==
    \A i \in DOMAIN messages :
        messages[i].role = "tool" => ToolEntryKeepsId(messages, i)

\* within the run that executed the tool, the request entries of the tool
\* turns carry the id
ToolTurnHasIdWithinRun ==
    msgsLeft = MaxMessages - 1 =>
        \A i \in DOMAIN messages :
            messages[i].role = "tool" => ToolEntryKeepsId(messages, i)

====
